---- MODULE Spec2Model ----
(***************************************************************************)
(* Plan execution engine of the UI navigator: run_task (main.py),          *)
(* Orchestrator.process_task (src/orchestrator.py), the Plan Runner        *)
(* PlaywrightExecutor.execute_plan and the Action Interpreter              *)
(* PlaywrightExecutor.execute_action (src/playwright_executor.py), and     *)
(* the login poll wait_for_manual_login (src/page_helpers.py).             *)
(*                                                                         *)
(* The Planner and the Page Driver are the environment: every call to      *)
(* them is a nondeterministic choice among the results it can give.        *)
(* An action string is modelled by what the code reads of it: its prefix   *)
(* (kind), its selector class (sel), the value typed (val), its branch     *)
(* target (tgt) and the substrings the login predicate of execute_plan     *)
(* tests for (feat).                                                       *)
(***************************************************************************)
EXTENDS Integers, Sequences, FiniteSets, TLC

VARIABLES
    pc,                 \* position of the run: which handler runs next
    plan,               \* navigation_plan['ui_navigation_plan'], as the Planner gave it
    site,               \* the web site under automation: "open" has no login affordance
    plannerOk,          \* whether generate_navigation_plan will return a plan
    loginPage,          \* page state: what is_login_page() answers now
    stepIdx,            \* position of the for-loop iterator in the plan (1-based)
    actIdx,             \* position of the inner for-loop in step['actions']
    current_step,       \* execute_plan local current_step
    login_completed,    \* execute_plan local login_completed
    skip_remaining_login_actions,
    step_successful,
    should_skip,
    skip_to_step,
    used_input_fields,  \* list of field signatures used in the current step
    dispatched,         \* <<step, k>> for every action handed to execute_action
    anyFailed,          \* whether some execute_action of the run raised
    fills,              \* the values entered into fields, in order, over the run
    iter,               \* what the current/last action-loop iteration did
    exc,                \* the exception propagating to run_task's except, or "none"
    result,             \* the record run_task is about to return
    outcome,            \* how run_task ended: "running", "returned", "raised"
    executePlanCalled,  \* whether execute_plan was invoked
    browserOpen,        \* PlaywrightExecutor.browser is set and not closed
    driverOn,           \* PlaywrightExecutor.playwright is started and not stopped
    resolved,           \* actions of the current step that returned, raised or were skipped
    captured,           \* the kinds of screenshot files written during the run
    screenshots,        \* execute_plan local screenshots (the step of each entry)
    fn,                 \* arguments and result of a helper evaluated on its own
    elapsed,            \* wait_for_manual_login local elapsed
    pollPc,             \* position of wait_for_manual_login
    pollRet,            \* its return value
    pollSaw             \* whether the last poll detected a completed login

vars == <<pc, plan, site, plannerOk, loginPage, stepIdx, actIdx, current_step,
          login_completed, skip_remaining_login_actions, step_successful,
          should_skip, skip_to_step, used_input_fields, dispatched,
          anyFailed, fills, iter, exc, result, outcome, executePlanCalled, browserOpen,
          driverOn, resolved, captured, screenshots, fn,
          elapsed, pollPc, pollRet, pollSaw>>

runVars  == <<stepIdx, actIdx, current_step, login_completed,
              skip_remaining_login_actions, step_successful, should_skip,
              skip_to_step, used_input_fields, dispatched, anyFailed, fills, iter,
              resolved, captured, screenshots>>
hostVars == <<browserOpen, driverOn>>
pollVars == <<elapsed, pollPc, pollRet, pollSaw>>
envVars  == <<plan, site, plannerOk>>

----------------------------------------------------------------------------
(* Bounds and program constants *)

\* number of visible text fields on the page, in document order (top to bottom)
NumFields == 2

max_wait_time  == 300
check_interval == 2

Fields == 1..NumFields

----------------------------------------------------------------------------
(* Plans *)

Act(kind, sel, val, tgt, feat) ==
    [kind |-> kind, sel |-> sel, val |-> val, tgt |-> tgt, feat |-> feat]

Step(n, goal, actions) == [step |-> n, goal |-> goal, actions |-> actions]

\* the login handshake actions a Planner emits (SYSTEM_PROMPT examples)
TypeEmail    == Act("type", "email", "<EMAIL>", 0, {"email_sel", "type_email", "email_ph"})
TypePassword == Act("type", "password", "<PASSWORD>", 0, {"pwd_sel", "pwd_ph"})
ClickSubmit  == Act("click", "css", "", 0, {"submit_btn"})

\* the end-to-end scenario of spec section 8
PlanE2E == <<
    Step(1, {}, << Act("open_page", "", "", 0, {}),
                   Act("wait_for_page_ready", "", "", 0, {}) >>),
    Step(2, {}, << Act("if_element_exists", "login_text", "", 3, {}),
                   Act("else", "", "", 4, {}) >>),
    Step(3, {"login"}, << TypeEmail, TypePassword, ClickSubmit >>),
    Step(4, {}, << Act("click", "text", "", 0, {}),
                   Act("type", "generic", "Q1 Launch", 0, {}),
                   Act("click", "text", "", 0, {}) >>) >>

\* step numbers neither contiguous nor in document order; step 2 branches
\* backwards (to 5) or forwards over step 7 (to 9); step 7 types twice;
\* step 9 holds a type( whose arguments do not match the pattern of type
PlanJump == <<
    Step(5, {}, << Act("click", "text", "", 0, {}) >>),
    Step(2, {}, << Act("if_element_exists", "text", "", 5, {}),
                   Act("else", "", "", 9, {}),
                   Act("click", "text", "", 0, {}) >>),
    Step(7, {}, << Act("type", "generic", "a", 0, {}),
                   Act("type", "generic", "b", 0, {}) >>),
    Step(9, {}, << Act("type", "missing", "c", 0, {}),
                   Act("type", "nomatch", "z", 0, {}),
                   Act("//", "", "", 0, {}) >>) >>

\* a login step followed by a step that still carries login actions and a
\* branch to a step number the plan does not have
PlanLogin == <<
    Step(1, {}, << Act("open_page", "", "", 0, {}) >>),
    Step(2, {"login"}, << TypeEmail, TypePassword, ClickSubmit >>),
    Step(3, {"credentials"},
                << TypePassword,
                   Act("type", "email", "x", 0, {"email_sel", "form"}),
                   Act("type", "email", "y", 0, {"email_sel", "type_email"}),
                   Act("type", "generic", "<EMAIL>", 0, {"email_ph"}),
                   ClickSubmit,
                   Act("unknown", "", "", 0, {}) >>),
    Step(4, {}, << Act("if_element_exists", "css", "", 8, {}),
                   Act("type", "generic", "d", 0, {}) >>) >>

\* an if / else-if / else chain (the form of the SYSTEM_PROMPT examples),
\* then two steps whose goal mentions login and that carry actions which are
\* no login actions: a wait and an else branch
PlanChain == <<
    Step(1, {}, << Act("if_element_exists", "text", "", 3, {}),
                   Act("if_element_exists", "css", "", 2, {}),
                   Act("else", "", "", 3, {}) >>),
    Step(2, {"login"}, << TypeEmail,
                          Act("wait_for_page_ready", "", "", 0, {}),
                          Act("else", "", "", 3, {}) >>),
    Step(3, {"sign in"}, << Act("wait_for_page_ready", "", "", 0, {}) >>) >>

\* a branch in the first step to a step number the plan does not have
PlanMissing == <<
    Step(1, {}, << Act("if_element_exists", "css", "", 8, {}),
                   Act("click", "text", "", 0, {}) >>),
    Step(2, {}, << Act("type", "generic", "e", 0, {}) >>) >>

Plans == {PlanE2E, PlanJump, PlanLogin, PlanChain, PlanMissing}

----------------------------------------------------------------------------
(* The login-action predicate of execute_plan *)

LoginGoalWords   == {"login", "log in", "sign in"}
RelatedGoalWords == {"login", "log in", "sign in", "authenticate", "credentials"}

is_login_step(goal) == goal \cap LoginGoalWords # {}

is_password_field(a) == a.feat \cap {"pwd_sel", "pwd_ph"} # {}

is_email_field(a) == a.feat \cap {"email_sel", "email_ph"} # {}

is_login_email(a, goal) ==
    /\ is_email_field(a)
    /\ \/ is_login_step(goal)
       \/ a.feat \cap {"email_ph", "pwd_ph"} # {}
       \/ /\ "type_email" \in a.feat
          /\ a.feat \cap {"form", "textarea"} = {}

is_submit_in_login(a, goal) == is_login_step(goal) /\ "submit_btn" \in a.feat

\* the needles "click('text=Log in" ... hold capital letters and are looked
\* for in action.lower(), which holds none: the test never succeeds
is_login_button_click(a, goal) == is_login_step(goal) /\ FALSE

\* the predicate with the password test left out
is_login_action_nopwd(a, goal) ==
    \/ is_login_email(a, goal)
    \/ is_submit_in_login(a, goal)
    \/ is_login_button_click(a, goal)

is_login_action(a, goal) ==
    \/ is_password_field(a)
    \/ is_login_email(a, goal)
    \/ is_submit_in_login(a, goal)
    \/ is_login_button_click(a, goal)

\* PlaywrightExecutor._is_login_related_step, on a page whose is_login_page is p
is_login_related_step(goal, p) == p \/ goal \cap RelatedGoalWords # {}

----------------------------------------------------------------------------
(* The Action Interpreter: the results execute_action can give *)

Out(sig, tgt, fill, page, found, clicked, shot) ==
    [sig |-> sig, tgt |-> tgt, fill |-> fill, page |-> page,
     found |-> found, clicked |-> clicked, shot |-> shot]

\* what is_login_page can answer after a navigation or a click
PageAfterNav == IF site = "gated" THEN BOOLEAN ELSE {FALSE}

\* _capture_screenshot_after_action: skipped on a login-related step,
\* otherwise page.screenshot returns or raises
ShotOutcomes(goal, p) ==
    IF is_login_related_step(goal, p) THEN {"skip"} ELSE {"ok", "fail"}

\* a handler that ends in _capture_screenshot_after_action, outside any try
AfterShot(goal, p, fill) ==
    { Out(IF s = "fail" THEN "raise" ELSE "ok", 0, fill, p, FALSE, FALSE, s) :
        s \in ShotOutcomes(goal, p) }

Raise(p) == Out("raise", 0, 0, p, FALSE, FALSE, "none")

ExecOpenPage(goal) ==
    {Raise(loginPage)}
    \cup UNION { IF p
                 THEN { Out("ok", 0, 0, FALSE, FALSE, FALSE, "none"),   \* login detected
                        Out("ok", 0, 0, TRUE, FALSE, FALSE, "none"),    \* login timeout
                        Raise(TRUE) }                                   \* capture_screenshot raised
                 ELSE AfterShot(goal, FALSE, 0)
               : p \in PageAfterNav }

ExecWaitForPageReady(goal) ==
    {Raise(loginPage)} \cup AfterShot(goal, loginPage, 0)

\* whether the page can show the element the selector names
CanFind(a) == IF a.sel = "login_text" THEN site = "gated" ELSE TRUE

ExecIfElementExists(a, goal) ==
    {Out("cond_false", 0, 0, loginPage, FALSE, FALSE, "none")}
    \cup (IF CanFind(a)
          THEN {Out("branch", a.tgt, 0, loginPage, TRUE, FALSE, "none")}   \* click failed
               \cup UNION { { Out(IF s = "fail" THEN "cond_false" ELSE "branch",
                                  a.tgt, 0, p, TRUE, TRUE, s)
                              : s \in ShotOutcomes(goal, p) }
                            : p \in PageAfterNav }
          ELSE {})

ExecElse(a) ==
    IF a.tgt # 0
    THEN {Out("branch", a.tgt, 0, loginPage, FALSE, FALSE, "none")}
    ELSE {Out("cond_true", 0, 0, loginPage, FALSE, FALSE, "none")}

\* the element locator(selector).first names, 0 when the selector matches none
LoginField(sel) == IF sel = "email" THEN NumFields + 1 ELSE NumFields + 2

FirstMatch(sel) ==
    IF sel = "generic" THEN 1
    ELSE IF sel \in {"email", "password"} /\ loginPage THEN LoginField(sel)
    ELSE 0

Used == {used_input_fields[i] : i \in 1..Len(used_input_fields)}

\* the positional fallback: the topmost field whose signature is not used
UnusedFields == Fields \ Used

BestCandidate == CHOOSE f \in UnusedFields : \A g \in UnusedFields : f <= g

ExecType(a, goal) ==
    {Raise(loginPage)}
    \cup (IF FirstMatch(a.sel) # 0
          THEN AfterShot(goal, loginPage, FirstMatch(a.sel)) ELSE {})
    \cup (IF UnusedFields # {}
          THEN AfterShot(goal, loginPage, BestCandidate) ELSE {})
    \cup AfterShot(goal, loginPage, 0)

ExecClick(goal) ==
    {Raise(loginPage)}
    \cup UNION { AfterShot(goal, p, 0) : p \in PageAfterNav }

\* an action with an argument pattern (re.search ... if match:) whose
\* arguments do not match it
PatternKinds == {"open_page", "if_element_exists", "type", "click"}

Parses(a) == ~(a.kind \in PatternKinds /\ a.sel = "nomatch")

\* an execute_action that raises on what it cannot read
ExecUnknownRaises == {Raise(loginPage)}

\* lines 1356-1357 and 1364: no branch of the chain applies, or the branch's
\* "if match:" fails: nothing is done and {'success': True} is returned
ExecUnknown == {Out("ok", 0, 0, loginPage, FALSE, FALSE, "none")}

ExecuteAction(a, goal) ==
    CASE ~Parses(a)                     -> ExecUnknown
      [] a.kind = "open_page"           -> ExecOpenPage(goal)
      [] a.kind = "wait_for_page_ready" -> ExecWaitForPageReady(goal)
      [] a.kind = "if_element_exists"   -> ExecIfElementExists(a, goal)
      [] a.kind = "else"                -> ExecElse(a)
      [] a.kind = "type"                -> ExecType(a, goal)
      [] a.kind = "click"               -> ExecClick(goal)
      [] a.kind = "//"                  -> {Out("comment", 0, 0, loginPage, FALSE, FALSE, "none")}
      [] OTHER                          -> ExecUnknown

----------------------------------------------------------------------------
(* State after construction of the run *)

NoOut == Out("none", 0, 0, FALSE, FALSE, FALSE, "none")

NewIter(step, k, done, isLogin) ==
    [step |-> step, k |-> k, loginDone |-> done, loginAct |-> isLogin,
     ops |-> {}, handshake |-> "none", fate |-> "pending", out |-> NoOut]

NoResult == [set |-> FALSE, success |-> FALSE, error |-> "none"]

Failure(err) == [set |-> TRUE, success |-> FALSE, error |-> err]

Success == [set |-> TRUE, success |-> TRUE, error |-> "none"]

RunInit ==
    /\ stepIdx = 1
    /\ actIdx = 1
    /\ current_step = 0
    /\ login_completed = FALSE
    /\ skip_remaining_login_actions = FALSE
    /\ step_successful = TRUE
    /\ should_skip = FALSE
    /\ skip_to_step = 0
    /\ used_input_fields = << >>
    /\ dispatched = {}
    /\ anyFailed = FALSE
    /\ fills = << >>
    /\ iter = NewIter(0, 0, FALSE, FALSE)
    /\ resolved = {}
    /\ captured = {}
    /\ screenshots = << >>

\* no helper is being evaluated on its own
FnIdle == [op |-> "idle"]

PollIdle ==
    /\ elapsed = 0
    /\ pollPc = "idle"
    /\ pollRet = FALSE
    /\ pollSaw = FALSE

Init ==
    /\ pc = "construct"
    /\ plan \in Plans
    /\ site \in {"open", "gated"}
    /\ plannerOk \in BOOLEAN
    /\ loginPage = FALSE
    /\ exc = "none"
    /\ result = NoResult
    /\ outcome = "running"
    /\ executePlanCalled = FALSE
    /\ browserOpen = FALSE
    /\ driverOn = FALSE
    /\ fn = FnIdle
    /\ RunInit
    /\ PollIdle

----------------------------------------------------------------------------
(* run_task and Orchestrator.process_task *)

\* main.py:23 Orchestrator(...) -> AgentB(), outside the try of run_task
Construct ==
    /\ pc = "construct"
    /\ \/ pc' = "initialize" /\ outcome' = outcome
       \/ pc' = "done" /\ outcome' = "raised"      \* AgentB.__init__ raises ValueError
    /\ UNCHANGED <<envVars, loginPage, runVars, pollVars, fn, exc, result,
                   executePlanCalled, hostVars>>

\* main.py:26 orchestrator.initialize(), inside the try
Initialize ==
    /\ pc = "initialize"
    /\ \/ /\ browserOpen' = TRUE /\ driverOn' = TRUE
          /\ pc' = "generate"
          /\ exc' = exc
       \/ /\ \/ browserOpen' = FALSE /\ driverOn' = FALSE   \* async_playwright().start() raised
             \/ browserOpen' = FALSE /\ driverOn' = TRUE    \* chromium.launch raised
             \/ browserOpen' = TRUE /\ driverOn' = TRUE     \* new_context, new_page or mkdir raised
          /\ pc' = "except"
          /\ exc' = "initialize"
    /\ UNCHANGED <<envVars, loginPage, runVars, pollVars, fn, result, outcome,
                   executePlanCalled>>

\* process_task: generate_navigation_plan, then execute_plan up to its try
GeneratePlan ==
    /\ pc = "generate"
    /\ IF plannerOk
       THEN /\ pc' = "step_start"
            /\ executePlanCalled' = TRUE
            /\ exc' = exc
       ELSE /\ pc' = "except"                    \* orchestrator.py:57-59 re-raises
            /\ executePlanCalled' = executePlanCalled
            /\ exc' = "planner"
    /\ UNCHANGED <<envVars, loginPage, runVars, pollVars, fn, result, outcome, hostVars>>

\* a record that does not carry str(error)
ExceptResultNoMessage(e) == Failure("error")

\* main.py:31-33: the record run_task returns for an exception it caught
ExceptResult(e) == Failure(e)

RunTaskExcept ==
    /\ pc = "except"
    /\ result' = ExceptResult(exc)
    /\ pc' = "cleanup"
    /\ UNCHANGED <<envVars, loginPage, runVars, pollVars, fn, exc, outcome,
                   executePlanCalled, hostVars>>

\* run_task's finally: orchestrator.cleanup() (playwright_executor.py:43-47);
\* an exception it raises replaces the return value, and an exception that
\* was propagating (a cancellation) goes on propagating after it
Cleanup ==
    /\ pc = "cleanup"
    /\ pc' = "done"
    /\ \/ /\ browserOpen' = FALSE /\ driverOn' = FALSE
          /\ outcome' = IF exc = "cancelled" THEN "raised" ELSE "returned"
       \/ /\ browserOpen                                    \* browser.close() raised or
          /\ UNCHANGED hostVars                             \* was interrupted: stop() is
          /\ outcome' = "raised"                            \* not reached
       \/ /\ driverOn                                       \* playwright.stop() raised
          /\ browserOpen' = FALSE /\ driverOn' = driverOn
          /\ outcome' = "raised"
    /\ UNCHANGED <<envVars, loginPage, runVars, pollVars, fn, exc, result, executePlanCalled>>

----------------------------------------------------------------------------
(* The Plan Runner: PlaywrightExecutor.execute_plan *)

CurStep == plan[stepIdx]

CurAction == CurStep.actions[actIdx]

HasStep(n) == \E i \in 1..Len(plan) : plan[i].step = n

\* an inner loop that leaves the step after any action
AfterActionEarlyExit(k) == "step_end"

\* the inner for-loop: the next action of the step, or the code after the loop
AfterAction(k) == IF k < Len(CurStep.actions) THEN "action_check" ELSE "step_end"

\* without the inner try the exception reaches the except of execute_plan
PcAfterRaisedAbort(k) == "plan_failed"

\* lines 1562-1568: an exception of execute_action is caught, the loop continues
PcAfterRaised(k) == AfterAction(k)

\* login_completed taken from the return value of the wait
LoginCompletedOnDetection(how) == how = "detected"

\* lines 1410-1412, 1418-1421, 1521-1523: login_completed = True whatever
\* wait_for_manual_login returned
LoginCompletedAfter(how) == TRUE

\* wait_for_manual_login as the runner sees it (its return value is ignored):
\* "detected" leaves a page that is no login page, "timeout" any page,
\* "raised" is capture_screenshot or a driver call of the poll raising
HandshakeResults ==
    {[how |-> "detected", page |-> FALSE]}
    \cup {[how |-> "timeout", page |-> p] : p \in BOOLEAN}
    \cup {[how |-> "raised", page |-> TRUE]}

\* PlaywrightExecutor.wait_for_manual_login captures the login page before
\* the poll; when the call raised, the capture may be what raised
HandshakeCapture(h) == IF h.how = "raised" THEN {} ELSE {"login_page"}

\* the screenshot files an execute_action call wrote: the after-action capture,
\* and the login-page capture of the handshake inside open_page
ActionCapture(a, o) ==
    (IF o.shot = "ok" THEN {"after_action"} ELSE {})
    \cup (IF a.kind = "open_page" /\ o.sig = "ok" /\ o.shot = "none"
          THEN {"login_page"} ELSE {})

\* a registry that lives as long as the run
RegistryKept(u) == u

\* line 1390: used_input_fields = [] at the top of the for-loop body
RegistryAtStepStart(u) == << >>

\* lines 1388-1413: the for-loop body up to the inner loop
StepStart ==
    /\ pc = "step_start"
    /\ current_step' = CurStep.step
    /\ used_input_fields' = RegistryAtStepStart(used_input_fields)
    /\ should_skip' = FALSE
    /\ skip_to_step' = 0
    /\ step_successful' = TRUE
    /\ actIdx' = 1
    /\ resolved' = {}
    /\ IF ~login_completed /\ is_login_step(CurStep.goal) /\ loginPage
       THEN \E h \in HandshakeResults :
              /\ iter' = [NewIter(CurStep.step, 0, login_completed, FALSE)
                            EXCEPT !.ops = {"is_login_page", "wait_for_manual_login"},
                                   !.handshake = h.how]
              /\ loginPage' = h.page
              /\ captured' = captured \cup HandshakeCapture(h)
              /\ IF h.how = "raised"
                 THEN /\ pc' = "plan_failed"
                      /\ UNCHANGED <<login_completed, skip_remaining_login_actions>>
                 ELSE /\ pc' = (IF Len(CurStep.actions) > 0 THEN "action_check" ELSE "step_end")
                      /\ login_completed' = LoginCompletedAfter(h.how)
                      /\ skip_remaining_login_actions' = TRUE
       ELSE /\ iter' = NewIter(CurStep.step, 0, login_completed, FALSE)
            /\ pc' = (IF Len(CurStep.actions) > 0 THEN "action_check" ELSE "step_end")
            /\ skip_remaining_login_actions' = FALSE
            /\ UNCHANGED <<loginPage, login_completed, captured>>
    /\ UNCHANGED <<envVars, stepIdx, dispatched, anyFailed, fills, screenshots, pollVars, fn,
                   exc, result, outcome, executePlanCalled, hostVars>>

\* lines 1415-1422: the login check that opens every iteration of the inner loop
ActionCheck ==
    /\ pc = "action_check"
    /\ LET fresh == NewIter(current_step, actIdx, login_completed,
                            is_login_action(CurAction, CurStep.goal))
       IN IF login_completed
          THEN /\ iter' = fresh
               /\ pc' = "action_body"
               /\ UNCHANGED <<loginPage, login_completed, skip_remaining_login_actions,
                              captured>>
          ELSE IF ~loginPage
          THEN /\ iter' = [fresh EXCEPT !.ops = {"is_login_page"}]
               /\ pc' = "action_body"
               /\ UNCHANGED <<loginPage, login_completed, skip_remaining_login_actions,
                              captured>>
          ELSE \E h \in HandshakeResults :
               /\ iter' = [fresh EXCEPT !.ops = {"is_login_page", "wait_for_manual_login"},
                                        !.handshake = h.how]
               /\ loginPage' = h.page
               /\ captured' = captured \cup HandshakeCapture(h)
               /\ IF h.how = "raised"
                  THEN /\ pc' = "plan_failed"
                       /\ UNCHANGED <<login_completed, skip_remaining_login_actions>>
                  ELSE /\ pc' = "action_body"
                       /\ login_completed' = LoginCompletedAfter(h.how)
                       /\ skip_remaining_login_actions' = TRUE
    /\ UNCHANGED <<envVars, stepIdx, actIdx, current_step, step_successful,
                   should_skip, skip_to_step, used_input_fields, dispatched,
                   anyFailed, fills, resolved, screenshots, pollVars, fn, exc, result, outcome, executePlanCalled,
                   hostVars>>

\* lines 1484-1487: every action of a login step is skipped once login is done
SkipInLoginStep ==
    /\ pc = "action_body"
    /\ is_login_step(CurStep.goal)
    /\ login_completed \/ skip_remaining_login_actions
    /\ iter' = [iter EXCEPT !.fate = "skipped"]
    /\ pc' = AfterAction(actIdx)
    /\ actIdx' = actIdx + 1
    /\ resolved' = resolved \cup {actIdx}
    /\ UNCHANGED <<envVars, loginPage, stepIdx, current_step, login_completed,
                   skip_remaining_login_actions, step_successful, should_skip,
                   skip_to_step, used_input_fields, dispatched, anyFailed, fills,
                   captured, screenshots, pollVars, fn, exc, result, outcome, executePlanCalled, hostVars>>

\* lines 1489-1493: a login action is skipped once login is done
SkipLoginAction ==
    /\ pc = "action_body"
    /\ ~is_login_step(CurStep.goal)
    /\ login_completed \/ skip_remaining_login_actions
    /\ is_login_action(CurAction, CurStep.goal)
    /\ iter' = [iter EXCEPT !.fate = "skipped"]
    /\ pc' = AfterAction(actIdx)
    /\ actIdx' = actIdx + 1
    /\ resolved' = resolved \cup {actIdx}
    /\ UNCHANGED <<envVars, loginPage, stepIdx, current_step, login_completed,
                   skip_remaining_login_actions, step_successful, should_skip,
                   skip_to_step, used_input_fields, dispatched, anyFailed, fills,
                   captured, screenshots, pollVars, fn, exc, result, outcome, executePlanCalled, hostVars>>

\* neither of the two skips above applies
NotSkipped ==
    /\ ~(is_login_step(CurStep.goal) /\ (login_completed \/ skip_remaining_login_actions))
    /\ ~((login_completed \/ skip_remaining_login_actions)
         /\ is_login_action(CurAction, CurStep.goal))

\* lines 1495-1518: a login action before login: when the page is no login
\* page the runner looks for a "Log in" button and clicks it; the page that results
PageAfterLoginSearch == IF loginPage THEN {TRUE} ELSE PageAfterNav

LoginSearchOps ==
    IF loginPage THEN {"is_login_page"} ELSE {"is_login_page", "locator"}

\* lines 1519-1525: the page is a login page now: handshake, action skipped
LoginActionHandshake ==
    /\ pc = "action_body"
    /\ NotSkipped
    /\ is_login_action(CurAction, CurStep.goal) /\ ~login_completed
    /\ TRUE \in PageAfterLoginSearch
    /\ \E h \in HandshakeResults :
         /\ iter' = [iter EXCEPT !.ops = @ \cup LoginSearchOps \cup {"wait_for_manual_login"},
                                 !.handshake = h.how,
                                 !.fate = "skipped"]
         /\ loginPage' = h.page
         /\ captured' = captured \cup HandshakeCapture(h)
         /\ IF h.how = "raised"
            THEN /\ pc' = "plan_failed"
                 /\ UNCHANGED <<login_completed, skip_remaining_login_actions, actIdx,
                                resolved>>
            ELSE /\ pc' = AfterAction(actIdx)
                 /\ actIdx' = actIdx + 1
                 /\ resolved' = resolved \cup {actIdx}
                 /\ login_completed' = LoginCompletedAfter(h.how)
                 /\ skip_remaining_login_actions' = TRUE
    /\ UNCHANGED <<envVars, stepIdx, current_step, step_successful, should_skip,
                   skip_to_step, used_input_fields, dispatched, anyFailed, fills,
                   screenshots, pollVars, fn, exc, result, outcome, executePlanCalled, hostVars>>

\* lines 1527-1568: execute_action and what the runner does with its result;
\* the wait_for_timeout(500) after it is inside the same try
Dispatch ==
    /\ pc = "action_body"
    /\ NotSkipped
    /\ (is_login_action(CurAction, CurStep.goal) /\ ~login_completed)
          => FALSE \in PageAfterLoginSearch
    /\ \E o \in ExecuteAction(CurAction, CurStep.goal), waitOk \in BOOLEAN :
         LET raised == o.sig = "raise" \/ ~waitOk
             branch == ~raised /\ o.sig = "branch" /\ o.tgt # 0
         IN /\ iter' = [iter EXCEPT
                          !.ops = @ \cup {"execute_action"}
                                    \cup (IF is_login_action(CurAction, CurStep.goal)
                                             /\ ~login_completed
                                          THEN LoginSearchOps ELSE {}),
                          !.fate = IF raised THEN "raised" ELSE "returned",
                          !.out = o]
            /\ dispatched' = dispatched \cup {<<current_step, actIdx>>}
            /\ anyFailed' = (anyFailed \/ raised)
            /\ fills' = IF o.fill # 0 THEN Append(fills, CurAction.val)
                        ELSE fills
            /\ used_input_fields' = IF o.fill # 0 THEN Append(used_input_fields, o.fill)
                                    ELSE used_input_fields
            /\ loginPage' = o.page
            /\ step_successful' = IF raised THEN FALSE ELSE step_successful
            /\ should_skip' = IF branch THEN TRUE ELSE should_skip
            /\ skip_to_step' = IF branch THEN o.tgt ELSE skip_to_step
            /\ pc' = IF branch THEN "step_end"
                     ELSE IF raised THEN PcAfterRaised(actIdx)
                     ELSE AfterAction(actIdx)
            /\ actIdx' = IF branch THEN actIdx ELSE actIdx + 1
            /\ resolved' = resolved \cup {actIdx}
            /\ captured' = captured \cup ActionCapture(CurAction, o)
    /\ UNCHANGED <<envVars, stepIdx, current_step, login_completed,
                   skip_remaining_login_actions, screenshots, pollVars, fn, exc, result, outcome,
                   executePlanCalled, hostVars>>

\* a loop whose position follows a branch to a step the plan carries
LoopAdvanceGoto ==
    IF should_skip /\ skip_to_step # 0 /\ HasStep(skip_to_step)
    THEN CHOOSE i \in 1..Len(plan) : plan[i].step = skip_to_step
    ELSE IF stepIdx < Len(plan) THEN stepIdx + 1 ELSE stepIdx

\* a lookup that raises when no step carries the number
PcAfterLookupAbort ==
    IF should_skip /\ skip_to_step # 0 /\ ~HasStep(skip_to_step) THEN "plan_failed"
    ELSE IF stepIdx < Len(plan) THEN "step_start" ELSE "finish"

\* lines 1597-1606: next(..., None) gives None for a number no step carries and
\* the body falls through to the end of the for-loop body, as `continue` does
PcAfterLookup == IF stepIdx < Len(plan) THEN "step_start" ELSE "finish"

\* line 1388: the for-loop takes the next step of the list, if there is one
LoopAdvance == IF stepIdx < Len(plan) THEN stepIdx + 1 ELSE stepIdx

\* lines 1570-1606 and the for-loop's advance: the end-of-step screenshot of a
\* successful login-related step, then the branch lookup, whose only effect
\* is an assignment to current_step that line 1389 overwrites
StepEnd ==
    /\ pc = "step_end"
    /\ \/ /\ pc' = PcAfterLookup
          /\ stepIdx' = LoopAdvance
          /\ current_step' = IF should_skip /\ skip_to_step # 0 /\ HasStep(skip_to_step)
                             THEN skip_to_step - 1 ELSE current_step
          /\ IF step_successful /\ is_login_related_step(CurStep.goal, loginPage)
             THEN /\ captured' = captured \cup {"end_of_step"}
                  /\ screenshots' = Append(screenshots, CurStep.step)
             ELSE UNCHANGED <<captured, screenshots>>
       \/ /\ step_successful /\ is_login_related_step(CurStep.goal, loginPage)
          /\ pc' = "plan_failed"                 \* capture_screenshot raised
          /\ UNCHANGED <<stepIdx, current_step, captured, screenshots>>
    /\ UNCHANGED <<envVars, loginPage, actIdx, login_completed,
                   skip_remaining_login_actions, step_successful, should_skip,
                   skip_to_step, used_input_fields, dispatched, anyFailed, fills,
                   iter, resolved, pollVars, fn, exc, result, outcome, executePlanCalled, hostVars>>

\* lines 1608-1616: the plan is exhausted
Finish ==
    /\ pc = "finish"
    /\ \/ result' = Success /\ pc' = "cleanup"
       \/ result' = result /\ pc' = "plan_failed"    \* wait_for_timeout(5000) raised
    /\ UNCHANGED <<envVars, loginPage, runVars, pollVars, fn, exc, outcome,
                   executePlanCalled, hostVars>>

\* lines 1617-1624: the except of execute_plan
PlanFailed ==
    /\ pc = "plan_failed"
    /\ result' = Failure("driver")
    /\ pc' = "cleanup"
    /\ UNCHANGED <<envVars, loginPage, runVars, pollVars, fn, exc, outcome,
                   executePlanCalled, hostVars>>

\* an external interrupt: asyncio cancels the task at the await it is
\* suspended in; CancelledError is no Exception, so the except clauses of
\* execute_plan, process_task and run_task let it pass and run_task's
\* finally runs
Interrupt ==
    /\ \/ pc \in {"initialize", "generate", "finish"}
       \/ pc = "action_body" /\ NotSkipped
    /\ exc' = "cancelled"
    /\ pc' = "cleanup"
    /\ IF pc = "initialize"
       THEN \/ browserOpen' = FALSE /\ driverOn' = FALSE
            \/ browserOpen' = FALSE /\ driverOn' = TRUE
            \/ browserOpen' = TRUE /\ driverOn' = TRUE
       ELSE UNCHANGED hostVars
    /\ UNCHANGED <<envVars, loginPage, runVars, pollVars, fn, result, outcome,
                   executePlanCalled>>

Next ==
    \/ Construct
    \/ Initialize
    \/ GeneratePlan
    \/ RunTaskExcept
    \/ Interrupt
    \/ StepStart
    \/ ActionCheck
    \/ SkipInLoginStep
    \/ SkipLoginAction
    \/ LoginActionHandshake
    \/ Dispatch
    \/ StepEnd
    \/ Finish
    \/ PlanFailed
    \/ Cleanup

Spec == Init /\ [][Next]_vars

----------------------------------------------------------------------------
(* The login poll: wait_for_manual_login (src/page_helpers.py) *)

\* the state in which the runner has just called wait_for_manual_login
InitPoll ==
    /\ pc = "poll"
    /\ plan = PlanLogin
    /\ site = "gated"
    /\ plannerOk = TRUE
    /\ loginPage = TRUE
    /\ exc = "none"
    /\ result = NoResult
    /\ outcome = "running"
    /\ executePlanCalled = TRUE
    /\ browserOpen = TRUE
    /\ driverOn = TRUE
    /\ fn = FnIdle
    /\ RunInit
    /\ elapsed = 0
    /\ pollPc = "loop"
    /\ pollRet = FALSE
    /\ pollSaw = FALSE

\* page_helpers.py:26, 43, 113: `element = await page.locator(indicator).first`
\* awaits a Locator, which is no awaitable: the statement raises TypeError
\* and the bare except around it goes on with the next indicator, so
\* is_visible is never reached
LocatorAwaitable == FALSE

\* whether the loop over indicators sees one, given that the page shows one
IndicatorSeen(shown) == LocatorAwaitable /\ shown

\* a detection that does not ask is_login_page again
LoginDetectedNoRecheck(urlChanged, loginA, indicator, loginB) ==
    urlChanged \/ indicator

\* the loop test off by one
PollContinuesInclusive == elapsed <= max_wait_time

\* line 96: while elapsed < max_wait_time
PollContinues == elapsed < max_wait_time

\* lines 100-121: a completed login is seen when the location changed to one
\* without a login keyword and is_login_page answers false (loginA), or a
\* post-login indicator is seen and is_login_page answers false (loginB).
\* urlDiffers: current_url != initial_url; urlKeyword: 'login' or 'signin'
\* is in the location; shown: the page shows a post-login landmark
LoginDetected(urlChanged, loginA, indicator, loginB) ==
    (urlChanged /\ ~loginA) \/ (indicator /\ ~loginB)

\* lines 97-121: one turn of the loop
PollIteration ==
    /\ pollPc = "loop"
    /\ PollContinues
    /\ elapsed' = elapsed + check_interval
    /\ \E urlDiffers \in BOOLEAN, urlKeyword \in BOOLEAN, loginA \in BOOLEAN,
          shown \in BOOLEAN, loginB \in BOOLEAN :
         /\ fn' = [op |-> "poll", urlDiffers |-> urlDiffers, urlKeyword |-> urlKeyword,
                   loginA |-> loginA, shown |-> shown, loginB |-> loginB]
         /\ pollSaw' = LoginDetected(urlDiffers /\ ~urlKeyword, loginA,
                                     IndicatorSeen(shown), loginB)
         /\ IF pollSaw'
            THEN pollPc' = "returned" /\ pollRet' = TRUE /\ loginPage' = FALSE
            ELSE pollPc' = "loop" /\ pollRet' = pollRet /\ loginPage' = loginPage
    /\ UNCHANGED <<pc, envVars, runVars, exc, result, outcome, executePlanCalled,
                   hostVars>>

\* lines 123-124: the loop ran out
PollTimeout ==
    /\ pollPc = "loop"
    /\ ~PollContinues
    /\ pollPc' = "returned"
    /\ pollRet' = FALSE
    /\ UNCHANGED <<pc, fn, envVars, loginPage, runVars, exc, result, outcome,
                   executePlanCalled, hostVars, elapsed, pollSaw>>

\* line 97: page.wait_for_timeout raises (the session is gone)
PollRaise ==
    /\ pollPc = "loop"
    /\ PollContinues
    /\ pollPc' = "raised"
    /\ UNCHANGED <<pc, fn, envVars, loginPage, runVars, exc, result, outcome,
                   executePlanCalled, hostVars, elapsed, pollRet, pollSaw>>

NextPoll == PollIteration \/ PollTimeout \/ PollRaise

\* every driver call returns or raises, so the coroutine keeps being resumed
SpecPoll == InitPoll /\ [][NextPoll]_vars /\ WF_vars(NextPoll)

----------------------------------------------------------------------------
(* The Element Resolver for text targets: click_text_element                *)
(* (src/element_helpers.py) and the detection of if_element_exists          *)
(* (src/playwright_executor.py), evaluated on a page of a few elements      *)

\* the most elements a page holds
MaxElems == 2

\* how the text of an element relates to the search phrase: equal to it after
\* strip() and lower(), containing it, containing the first of the synonyms
\* action_synonyms gives for the phrase, containing only a later one of
\* them, or none of these
TextKinds == {"exact", "partial", "synonym", "later_synonym", "other"}

SynonymKinds == {"synonym", "later_synonym"}

\* an element in document order; clickOk: the driver's scroll, wait and click
\* on it succeed, which they never do on an element that is not visible
Elements ==
    {e \in [txt : TextKinds, visible : BOOLEAN, button : BOOLEAN, clickOk : BOOLEAN] :
        e.clickOk => e.visible}

Pages == UNION {[1..n -> Elements] : n \in 0..MaxElems}

\* the search phrase: a key of action_synonyms ("create"), a phrase that
\* contains a key ("create project"), a phrase a key contains ("on" in
\* "confirm"), a phrase unrelated to every key ("Banana"), and an unrelated
\* phrase that is no valid regular expression ("C++")
PhraseKinds == {"verb", "has_verb", "in_verb", "plain", "meta"}

\* lines 26-34: synonyms_to_try is not empty
SynonymsApply(ph) == ph \in {"verb", "has_verb", "in_verb"}

\* the phrase can be interpolated into text=/.../i and re.compile
RegexSafe(ph) == ph # "meta"

Contains(e) == e.txt \in {"exact", "partial"}

\* the first index of a set of indices, 0 for none
FirstOf(S) == IF S = {} THEN 0 ELSE CHOOSE i \in S : \A j \in S : i <= j

TextResult(clicked, by, raised) ==
    [clicked |-> clicked, by |-> by, raised |-> raised,
     found |-> 0, tried |-> << >>, sig |-> "none"]

\* a resolver that only tries the buttons containing the phrase
ClickTextButtonsOnly(ph, page) ==
    LET s4 == FirstOf({i \in DOMAIN page : /\ page[i].button /\ Contains(page[i])
                                           /\ page[i].clickOk})
    IN  IF s4 # 0 THEN {TextResult(s4, 4, FALSE)} ELSE {TextResult(0, 0, TRUE)}

\* click_text_element: the six strategies in order, first success wins. The
\* result names the element clicked (-i for the parent of element i) and the
\* strategy that clicked it.
ClickText(ph, page) ==
    LET idx == DOMAIN page
        \* strategy 1: the first visible element whose text equals the phrase
        s1 == IF RegexSafe(ph)
              THEN FirstOf({i \in idx : page[i].txt = "exact" /\ page[i].visible})
              ELSE 0
        \* strategy 2: the visible buttons in document order, each tested
        \* against every synonym and clicked when one matches
        s2 == IF SynonymsApply(ph)
              THEN FirstOf({i \in idx : /\ page[i].button /\ page[i].visible
                                        /\ page[i].txt \in SynonymKinds
                                        /\ page[i].clickOk})
              ELSE 0
        \* strategies 3 and 5: the first element the regex matches
        f  == IF RegexSafe(ph) THEN FirstOf({i \in idx : Contains(page[i])}) ELSE 0
        \* strategy 4: buttons whose text contains the phrase, each tried in turn
        s4 == FirstOf({i \in idx : /\ page[i].button /\ Contains(page[i])
                                   /\ page[i].clickOk})
        \* strategy 6: the first accessible button whose name matches
        s6 == IF RegexSafe(ph)
              THEN FirstOf({i \in idx : /\ page[i].button /\ page[i].visible
                                        /\ Contains(page[i])})
              ELSE 0
        last == IF s6 # 0 /\ page[s6].clickOk
                THEN {TextResult(s6, 6, FALSE)}
                ELSE {TextResult(0, 0, TRUE)}
    IN  IF s1 # 0 /\ page[s1].clickOk THEN {TextResult(s1, 1, FALSE)}
        ELSE IF s2 # 0 THEN {TextResult(s2, 2, FALSE)}
        ELSE IF f # 0 /\ page[f].clickOk THEN {TextResult(f, 3, FALSE)}
        ELSE IF s4 # 0 THEN {TextResult(s4, 4, FALSE)}
        ELSE IF f # 0 /\ ~page[f].visible
             THEN {TextResult(-f, 5, FALSE)} \cup last   \* the click on the parent
             ELSE last

\* lines 389-429: the element if_element_exists finds for text=<phrase>
FoundText(ph, page) ==
    LET idx == DOMAIN page
        e == FirstOf({i \in idx : page[i].txt = "exact" /\ page[i].visible})
        f == FirstOf({i \in idx : Contains(page[i])})
    IN  IF RegexSafe(ph) /\ e # 0 THEN e
        ELSE IF f # 0 /\ page[f].visible THEN f     \* .first of text=/../i or text=..
        ELSE 0

\* lines 527-529: the element it finds for a raw selector (here: button)
FoundCss(page) ==
    LET f == FirstOf({i \in DOMAIN page : page[i].button})
    IN  IF f # 0 /\ page[f].visible THEN f ELSE 0

\* a signal that needs the click to have succeeded
SignalNeedsClick(clickedOk, shot) ==
    IF clickedOk /\ shot # "fail" THEN "branch" ELSE "cond_false"

\* lines 535-561: the signal returned for a found element; the screenshot is
\* taken only after a click that succeeded, inside the handler's try
SignalAfterClick(clickedOk, shot) ==
    IF clickedOk /\ shot = "fail" THEN "cond_false" ELSE "branch"

\* lines 531-561: click on what was found, screenshot, signal
ExistsResults(found, page) ==
    IF found = 0
    THEN {[clicked |-> 0, by |-> 0, raised |-> FALSE,
           found |-> 0, tried |-> << >>, sig |-> "cond_false"]}
    ELSE {[clicked |-> IF page[found].clickOk THEN found ELSE 0,
           by |-> 0, raised |-> FALSE,
           found |-> found, tried |-> <<found>>,
           sig |-> SignalAfterClick(page[found].clickOk, shot)]
          : shot \in {"ok", "fail", "skip"}}

TextOps == {"click_text", "exists_text", "exists_css"}

\* the run is not started: only the helper is evaluated
HelperHost ==
    /\ pc = "helper"
    /\ plan = PlanE2E
    /\ site = "open"
    /\ plannerOk = TRUE
    /\ loginPage = FALSE
    /\ exc = "none"
    /\ result = NoResult
    /\ outcome = "running"
    /\ executePlanCalled = FALSE
    /\ browserOpen = TRUE
    /\ driverOn = TRUE
    /\ RunInit
    /\ PollIdle

\* the arguments of a helper call on a text target; probe: whether the
\* driver answered the detection calls
TextCall(op, ph, page) ==
    [op |-> op, phrase |-> ph, page |-> page, st |-> "start", probe |-> TRUE,
     res |-> TextResult(0, 0, FALSE)]

InitText ==
    /\ HelperHost
    /\ \E op \in TextOps, ph \in PhraseKinds, page \in Pages :
         /\ op = "exists_css" => ph = "plain"
         /\ fn = TextCall(op, ph, page)

hostAll == <<pc, envVars, loginPage, runVars, pollVars, exc, result, outcome,
             executePlanCalled, hostVars>>

ClickTextElement ==
    /\ fn.op = "click_text" /\ fn.st = "start"
    /\ \E r \in ClickText(fn.phrase, fn.page) :
         fn' = [fn EXCEPT !.st = "done", !.res = r]
    /\ UNCHANGED hostAll

\* detection may itself raise (locator.count, is_visible): the bare except
\* of the handler returns conditionFalse
IfElementExistsText ==
    /\ fn.op = "exists_text" /\ fn.st = "start"
    /\ \E probeOk \in BOOLEAN :
         \E r \in ExistsResults(IF probeOk THEN FoundText(fn.phrase, fn.page) ELSE 0,
                                fn.page) :
            fn' = [fn EXCEPT !.st = "done", !.res = r, !.probe = probeOk]
    /\ UNCHANGED hostAll

IfElementExistsCss ==
    /\ fn.op = "exists_css" /\ fn.st = "start"
    /\ \E probeOk \in BOOLEAN :
         \E r \in ExistsResults(IF probeOk THEN FoundCss(fn.page) ELSE 0, fn.page) :
            fn' = [fn EXCEPT !.st = "done", !.res = r, !.probe = probeOk]
    /\ UNCHANGED hostAll

NextText == ClickTextElement \/ IfElementExistsText \/ IfElementExistsCss

SpecText == InitText /\ [][NextText]_vars

----------------------------------------------------------------------------
(* UrlState: get_url_state (src/page_helpers.py), evaluated on locations    *)
(* made of a few path segments                                              *)

\* the most path segments of a location, and the most evaluations on it
MaxSegs == 4
MaxEvals == 2

\* path segments as the browser reports them (case kept)
Segs == {"projects", "42", "issues", "Issues", "new", "NEW", "views", "login"}

Urls == UNION {[1..n -> Segs] : n \in 0..MaxSegs}

\* a location left as the browser reports it
SegAsIs(seg) == seg

\* line 130: url = page.url.lower()
LowerSeg(seg) ==
    CASE seg = "Issues" -> "issues"
      [] seg = "NEW"    -> "new"
      [] OTHER          -> seg

\* the keywords k for which "/" + k is a prefix of "/" + seg (seg in lower case)
KeywordsOf(seg) ==
    CASE seg = "projects" -> {"project", "projects"}
      [] seg = "issues"   -> {"issue", "issues"}
      [] seg = "views"    -> {"view", "views"}
      [] seg = "new"      -> {"new"}
      [] seg = "login"    -> {"login"}
      [] OTHER            -> {}

\* lines 140-145: any(keyword in url for keyword in [...])
AnyKeywordIn(url, keywords) ==
    \E i \in DOMAIN url : KeywordsOf(LowerSeg(url[i])) \cap keywords # {}

\* lines 136-146: the flags of the state record
UrlFlags(url) ==
    [is_create   |-> AnyKeywordIn(url, {"new", "create", "add", "edit"}),
     is_view     |-> AnyKeywordIn(url, {"view", "views"}),
     is_issue    |-> AnyKeywordIn(url, {"issue", "issues"}),
     is_project  |-> AnyKeywordIn(url, {"project", "projects"}),
     is_settings |-> AnyKeywordIn(url, {"settings", "config", "preferences"}),
     is_login    |-> AnyKeywordIn(url, {"login", "signin", "auth", "sign-in"})]

InitUrl ==
    /\ HelperHost
    /\ \E url \in Urls, other \in BOOLEAN :
         fn = [op |-> "url", url |-> url, other |-> other, evals |-> << >>]

\* one call of get_url_state on the current location
GetUrlState ==
    /\ fn.op = "url"
    /\ Len(fn.evals) < MaxEvals
    /\ fn' = [fn EXCEPT !.evals = Append(@, UrlFlags(fn.url))]
    /\ UNCHANGED hostAll

\* the rest of the page and of the run changes while the location stays
PageChanges ==
    /\ fn.op = "url"
    /\ fn' = [fn EXCEPT !.other = ~@]
    /\ UNCHANGED hostAll

NextUrl == GetUrlState \/ PageChanges

SpecUrl == InitUrl /\ [][NextUrl]_vars

----------------------------------------------------------------------------
(* The Element Resolver for symbol targets: click('symbol=+') in            *)
(* execute_action and click_symbol_element (src/element_helpers.py)         *)

\* the most symbol-bearing buttons on the page
MaxButtons == 2

\* step goals, as the words re.findall(r'\b\w+\b', goal.lower()) gives
Goals == { <<"add", "a", "view">>, <<"add", "member">>,
           <<"open", "the", "team">>, << >> }

\* the stop words of lines 987 that occur in the goals, and the words of
\* one or two letters (len(w) > 2 fails)
StopWords == {"a", "the", "open", "click", "new"}
ShortWords == {"a"}

\* lines 983-988: context_keywords of a click on a symbol
ContextOfGoal(goal) ==
    {goal[i] : i \in {j \in DOMAIN goal : goal[j] \notin StopWords \cup ShortWords}}

\* the words of the visible '+'-bearing buttons: "+ Add member", "+ Add view",
\* "+ New team", and a bare "+"
ButtonTexts == { {"add", "member"}, {"add", "view"}, {"new", "team"}, {} }

\* where the left edge of a button is, in percent of the viewport width
XPositions == {10, 30, 31, 60}

Buttons == [words : ButtonTexts, x : XPositions, clickOk : BOOLEAN]

ButtonPages == UNION {[1..n -> Buttons] : n \in 0..MaxButtons}

CreateKeywords == {"add", "create", "new"}
ConflictingKeywords == {"team", "workspace", "settings", "profile", "account",
                        "preferences"}

\* the score with the create bonus given once and the penalty applied
\* whether or not there are context keywords
ScoreUnconditional(b, ctx) ==
    10 * Cardinality(ctx \cap b.words)
    + (IF b.x > 30 THEN 5 ELSE 0)
    + (IF CreateKeywords \cap b.words # {} /\ (ctx = {} \/ ctx \cap b.words # {})
       THEN 3 ELSE 0)
    - 5 * Cardinality((ConflictingKeywords \cap b.words) \ ctx)

\* lines 240-275, the part of the score that does not depend on an intended
\* button text: +10 per context keyword in the text, +5 right of 30% of the
\* width, +3 per create keyword when there is no context or the text holds a
\* context keyword, and, when there is a context, -5 per conflicting keyword
\* that is not in it
Score(b, ctx) ==
    10 * Cardinality(ctx \cap b.words)
    + (IF b.x > 30 THEN 5 ELSE 0)
    + 3 * Cardinality({k \in CreateKeywords \cap b.words :
                          ctx = {} \/ ctx \cap b.words # {}})
    - (IF ctx = {} THEN 0
       ELSE 5 * Cardinality((ConflictingKeywords \cap b.words) \ ctx))

\* lines 229-238: +50 when the text contains the intended button text, and
\* int(ratio * 30) for the ratio of its words the text holds
IntendedScore(b, intended) ==
    IF intended = {} THEN 0
    ELSE (IF intended \subseteq b.words THEN 50 ELSE 0)
         + (30 * Cardinality(intended \cap b.words)) \div Cardinality(intended)

\* lines 226-275: the score of a button
FullScore(b, ctx, intended) == IntendedScore(b, intended) + Score(b, ctx)

\* a sort that puts the lowest score first
PrecedesAscending(sa, sb) == sa < sb

\* line 284: sort(key=score, reverse=True)
Precedes(sa, sb) == sa > sb

\* candidate i is tried before candidate j: the sort is stable
TriedBefore(page, ctx, i, j) ==
    \/ Precedes(Score(page[i], ctx), Score(page[j], ctx))
    \/ Score(page[i], ctx) = Score(page[j], ctx) /\ i < j

\* attempts: the scored candidates a click was attempted on, in order
SymbolResult(clicked, by, tried, attempts, raised) ==
    [clicked |-> clicked, by |-> by, tried |-> tried, attempts |-> attempts,
     raised |-> raised]

\* a list that keeps every scored button
KeepsAnyScore(score) == TRUE

\* line 277: if score > 0: scored_buttons.append(...)
KeepsCandidate(score) == score > 0

\* lines 199-278: scored_buttons, as the set of the buttons kept
Candidates(page, ctx) ==
    IF ctx = {} THEN {}
    ELSE {i \in DOMAIN page : KeepsCandidate(Score(page[i], ctx))}

\* line 284: scored_buttons after the sort
ScoredOrder(page, ctx) ==
    LET cands == Candidates(page, ctx)
    IN  CHOOSE s \in [1..Cardinality(cands) -> cands] :
            \A i, j \in DOMAIN s : i < j => TriedBefore(page, ctx, s[i], s[j])

\* lines 292-299: the loop clicks each in turn and returns after the first
\* click that succeeds
Attempts(page, ctx) ==
    LET s    == ScoredOrder(page, ctx)
        hits == {i \in DOMAIN s : page[s[i]].clickOk}
    IN  IF hits = {} THEN s ELSE SubSeq(s, 1, FirstOf(hits))

\* click_symbol_element called with the context of the goal: the scored
\* candidates are clicked in sorted order until a click succeeds (lines
\* 196-301); then the literal symbol and any element holding the symbol, in
\* document order (303-332); what the later strategies do is left open
ClickSymbol(page, ctx) ==
    LET idx   == DOMAIN page
        cands == Candidates(page, ctx)
        good  == {i \in cands : page[i].clickOk}
        best  == CHOOSE i \in good : \A j \in good \ {i} : TriedBefore(page, ctx, i, j)
        bare  == FirstOf({i \in idx : page[i].words = {} /\ page[i].clickOk})
        any   == FirstOf({i \in idx : page[i].clickOk})
        att   == Attempts(page, ctx)
    IN  IF good # {}
        THEN {SymbolResult(best, 1,
                           {j \in cands : j = best \/ TriedBefore(page, ctx, j, best)},
                           att, FALSE)}
        ELSE IF bare # 0 THEN {SymbolResult(bare, 2, cands \cup {bare}, att, FALSE)}
        ELSE IF any # 0 THEN {SymbolResult(any, 3, idx, att, FALSE)}
        ELSE {SymbolResult(0, 4, idx, att, FALSE), SymbolResult(0, 0, idx, att, TRUE)}

InitSymbol ==
    /\ HelperHost
    /\ \E goal \in Goals, page \in ButtonPages :
         fn = [op |-> "click_symbol", goal |-> goal, page |-> page, st |-> "start",
               res |-> SymbolResult(0, 0, {}, << >>, FALSE)]

ClickSymbolElement ==
    /\ fn.op = "click_symbol" /\ fn.st = "start"
    /\ \E r \in ClickSymbol(fn.page, ContextOfGoal(fn.goal)) :
         fn' = [fn EXCEPT !.st = "done", !.res = r]
    /\ UNCHANGED hostAll

NextSymbol == ClickSymbolElement

SpecSymbol == InitSymbol /\ [][NextSymbol]_vars

----------------------------------------------------------------------------
(* The score of click_symbol_element evaluated on single buttons            *)

\* the words of the button texts scored: those above and "+ Add new view",
\* "+ Create new team", "+ Settings"
ScoredTexts == ButtonTexts \cup { {"add", "new", "view"}, {"create", "new", "team"},
                                  {"settings"} }

\* the context keyword lists, and the words of the intended button texts
Contexts == { {}, {"view"}, {"add", "view"}, {"team"}, {"member"} }
IntendedTexts == { {}, {"add", "view"}, {"new", "team"}, {"add", "new", "view"} }

InitScore ==
    /\ HelperHost
    /\ \E w \in ScoredTexts, x \in XPositions, ctx \in Contexts, it \in IntendedTexts :
         fn = [op |-> "score", b |-> [words |-> w, x |-> x, clickOk |-> TRUE],
               ctx |-> ctx, intended |-> it, st |-> "start", score |-> 0]

ScoreButton ==
    /\ fn.op = "score" /\ fn.st = "start"
    /\ fn' = [fn EXCEPT !.st = "done", !.score = FullScore(fn.b, fn.ctx, fn.intended)]
    /\ UNCHANGED hostAll

NextScore == ScoreButton

SpecScore == InitScore /\ [][NextScore]_vars

----------------------------------------------------------------------------
(* The conditional actions as execute_action evaluates them: the prefix     *)
(* chain, if_url_contains, if_element_exists on a symbol target and the     *)
(* else handler (src/playwright_executor.py)                                *)

\* the action strings: an optional 'else ' in front of one of these calls
CondKinds == {"if_url_contains", "if_element_exists", "press_key", "wait_for",
              "proceed_to_step"}

\* the branch targets written in the action strings
CondTargets == {3, 6}

\* lines 138-1356: the branch of the elif chain an action string reaches.
\* 'else if_element_exists(' is named at line 382; every other string that
\* starts with 'else' reaches line 563, whatever follows the prefix
HandlerFor(els, kind) ==
    IF kind = "if_element_exists" THEN "if_element_exists"
    ELSE IF els THEN "else"
    ELSE kind

CondResult(sig, tgt, did, raised) ==
    [sig |-> sig, tgt |-> tgt, did |-> did, raised |-> raised]

\* a handler without the try around the location check
IfUrlContainsUnguarded(parses, urlOk, urlHas, tgt) ==
    IF parses /\ ~urlOk THEN CondResult("raise", 0, "none", TRUE)
    ELSE IF parses /\ urlHas THEN CondResult("branch", tgt, "none", FALSE)
    ELSE CondResult(IF parses THEN "cond_false" ELSE "ok", 0, "none", FALSE)

\* lines 341-363: urlOk is page.url answering, urlHas the pattern being in it
IfUrlContains(parses, urlOk, urlHas, tgt) ==
    IF ~parses THEN CondResult("ok", 0, "none", FALSE)
    ELSE IF ~urlOk THEN CondResult("cond_false", 0, "none", FALSE)
    ELSE IF urlHas THEN CondResult("branch", tgt, "none", FALSE)
    ELSE CondResult("cond_false", 0, "none", FALSE)

\* lines 563-570: the pattern proceed_to_step\((\d+)\)|skip_to_step\((\d+)\)
\* matches 'else proceed_to_step(N)' and no 'proceed_to_step=N'; without a
\* match the handler returns {'condition': True, 'result': True}
ElseHandler(kind, tgt) ==
    IF kind = "proceed_to_step"
    THEN CondResult("branch", tgt, "none", FALSE)
    ELSE CondResult("cond_true", 0, "none", FALSE)

\* lines 167-271 and 1246-1338: the handlers of wait_for and press_key make
\* the call on the driver; a failed call raises, except that wait_for
\* swallows the failure of its selector waits and waits for the page instead
DriverCall(kind, driverOk) ==
    IF driverOk THEN {CondResult("ok", 0, kind, FALSE)}
    ELSE {CondResult("raise", 0, "none", TRUE)}
         \cup (IF kind = "wait_for" THEN {CondResult("ok", 0, kind, FALSE)} ELSE {})

\* line 110: the parameters of PlaywrightExecutor._click_symbol_element, and
\* line 495: the arguments the symbol conditional calls it with
WrapperParams == {"symbol", "context_keywords"}
SymbolCallArgs == {"symbol", "context_keywords", "intended_button_text"}

\* a call binds when every keyword it passes is a parameter; otherwise
\* Python raises TypeError before the coroutine is created
CallBinds(args, params) == args \subseteq params

\* lines 447-455 and 458-464: the context of the symbol conditional, from the
\* words of the failed text lookup or else from the goal
SymbolContext(prev, goal) ==
    IF prev # {} THEN prev ELSE ContextOfGoal(goal)

\* lines 437-503 and 531-561: the symbol conditional; the call at line 495 is
\* inside a bare except that sets exists = False
IfSymbolExists(page, goal, prev, tgt) ==
    IF ~CallBinds(SymbolCallArgs, WrapperParams)
    THEN {CondResult("cond_false", 0, "none", FALSE)}
    ELSE {IF r.raised THEN CondResult("cond_false", 0, "none", FALSE)
          ELSE CondResult("branch", tgt, "click", FALSE)
          : r \in ClickSymbol(page, SymbolContext(prev, goal))}

\* the words of the text lookup that failed just before ('+ Add view')
PrevFailed == { {}, {"add", "view"} }

\* an action string of the kinds above with what the page holds for it
InitCondAction ==
    /\ \E els \in BOOLEAN, kind \in CondKinds, parses \in BOOLEAN, tgt \in CondTargets,
          urlOk \in BOOLEAN, urlHas \in BOOLEAN, driverOk \in BOOLEAN,
          page \in ButtonPages, goal \in Goals, prev \in PrevFailed :
         /\ kind = "proceed_to_step" => els
         /\ kind # "if_url_contains" => (urlOk /\ urlHas)
         /\ kind \notin {"press_key", "wait_for"} => driverOk
         /\ kind # "if_element_exists"
               => (page = << >> /\ goal = << >> /\ prev = {})
         /\ kind = "if_element_exists" => (parses /\ tgt = 6)
         /\ fn = [op |-> "cond", els |-> els, kind |-> kind, parses |-> parses,
                  tgt |-> tgt, urlOk |-> urlOk, urlHas |-> urlHas,
                  driverOk |-> driverOk, page |-> page, goal |-> goal,
                  prev |-> prev, st |-> "start",
                  res |-> CondResult("none", 0, "none", FALSE)]

InitCond ==
    /\ HelperHost
    /\ \/ \E ph \in PhraseKinds, page \in Pages : fn = TextCall("exists_text", ph, page)
       \/ \E page \in Pages : fn = TextCall("exists_css", "plain", page)
       \/ InitCondAction

CondStart(h) ==
    /\ fn.op = "cond" /\ fn.st = "start"
    /\ HandlerFor(fn.els, fn.kind) = h

CondDone(r) ==
    /\ fn' = [fn EXCEPT !.st = "done", !.res = r]
    /\ UNCHANGED hostAll

ExecIfUrlContains ==
    /\ CondStart("if_url_contains")
    /\ CondDone(IfUrlContains(fn.parses, fn.urlOk, fn.urlHas, fn.tgt))

ExecIfSymbolExists ==
    /\ CondStart("if_element_exists")
    /\ \E r \in IfSymbolExists(fn.page, fn.goal, fn.prev, fn.tgt) : CondDone(r)

ExecElseHandler ==
    /\ CondStart("else")
    /\ CondDone(ElseHandler(fn.kind, fn.tgt))

ExecDriverCall ==
    /\ \/ CondStart("press_key")
       \/ CondStart("wait_for")
    /\ \E r \in (IF fn.parses THEN DriverCall(fn.kind, fn.driverOk)
                 ELSE {CondResult("ok", 0, "none", FALSE)}) : CondDone(r)

NextCond ==
    \/ ExecIfUrlContains
    \/ IfElementExistsText
    \/ IfElementExistsCss
    \/ ExecIfSymbolExists
    \/ ExecElseHandler
    \/ ExecDriverCall

SpecCond == InitCond /\ [][NextCond]_vars

----------------------------------------------------------------------------
(* Login detection: is_login_page (src/page_helpers.py), evaluated on a     *)
(* page given by its visible inputs and its location                        *)

\* the most evaluations on one page
MaxChecks == 2

\* locations, as page.url gives them
Locations == {"/login", "/LOGIN", "/signin", "/sign-in", "/log-in", "/auth/sso",
              "/authors", "/catalogin", "/dashboard", "/"}

\* line 54: url = page.url.lower()
LowerLocation(loc) == IF loc = "/LOGIN" THEN "/login" ELSE loc

\* lines 55-56: any(path in url for path in login_paths), the paths being
\* '/login', '/signin', '/auth', '/sign-in', '/log-in', '/sign-in/'
HasLoginPath(url) ==
    url \in {"/login", "/signin", "/sign-in", "/log-in", "/auth/sso", "/authors"}

\* lines 24-30 and 41-47: whether the loop over the indicators sets the flag,
\* given that the page shows a visible field of the kind
FieldSeen(shown) == LocatorAwaitable /\ shown

\* lines 8-63: urlOk is page.url answering
IsLoginPage(email, password, loc, urlOk) ==
    IF FieldSeen(email) /\ FieldSeen(password) THEN TRUE
    ELSE IF ~urlOk THEN FALSE
    ELSE HasLoginPath(LowerLocation(loc))

InitLogin ==
    /\ HelperHost
    /\ \E email \in BOOLEAN, password \in BOOLEAN, loc \in Locations, urlOk \in BOOLEAN :
         fn = [op |-> "is_login_page", email |-> email, password |-> password,
               loc |-> loc, urlOk |-> urlOk, n |-> 0, res |-> FALSE]

CheckLoginPage ==
    /\ fn.op = "is_login_page" /\ fn.n < MaxChecks
    /\ fn' = [fn EXCEPT !.n = @ + 1,
                        !.res = IsLoginPage(fn.email, fn.password, fn.loc, fn.urlOk)]
    /\ UNCHANGED hostAll

\* the user types or navigates between two evaluations
LoginPageChanges ==
    /\ fn.op = "is_login_page" /\ fn.n = 1
    /\ \E email \in BOOLEAN, password \in BOOLEAN, loc \in Locations :
         /\ <<email, password, loc>> # <<fn.email, fn.password, fn.loc>>
         /\ fn' = [fn EXCEPT !.email = email, !.password = password, !.loc = loc]
    /\ UNCHANGED hostAll

NextLogin == CheckLoginPage \/ LoginPageChanges

SpecLogin == InitLogin /\ [][NextLogin]_vars

----------------------------------------------------------------------------
(* The type handler of execute_action (src/playwright_executor.py, lines    *)
(* 572-896), evaluated on a page given by its fields. The pages put their   *)
(* fields directly in the body: no dialog, modal or form container.         *)

\* the most fields on a page
MaxTypeFields == 2

\* getBoundingClientRect(): a larger top is lower on the page; area is
\* height * width
Tops  == {100, 200}
Lefts == {10, 300}
Areas == {1, 2}
FieldKinds == {"editable", "textarea", "input"}

PageFields == [top : Tops, left : Lefts, area : Areas, kind : FieldKinds]

\* field_id = el.getBoundingClientRect().top + "," + el.getBoundingClientRect().left
Signature(f) == <<f.top, f.left>>

\* the fields of a page in document order, no two at the same place
FormPages ==
    { p \in UNION { [1..n -> PageFields] : n \in 0..MaxTypeFields } :
        \A i, j \in 1..Len(p) : i # j => Signature(p[i]) # Signature(p[j]) }

\* selectors, by the words the handler looks for in them and the number in
\* :nth-of-type(n), 0 when there is none:  textarea,  input[name="title"],
\* input[name="description"],  input:nth-of-type(2),  [contenteditable="true"],
\* #title
TypeSelectors ==
    { [words |-> {"textarea"}, nth |-> 0],
      [words |-> {"input", "title"}, nth |-> 0],
      [words |-> {"input", "description"}, nth |-> 0],
      [words |-> {"input", "nth-of-type"}, nth |-> 2],
      [words |-> {"contenteditable"}, nth |-> 0],
      [words |-> {"title"}, nth |-> 0] }

\* the values typed, by their words
TypeTexts == { {"bug"}, {"description"} }

\* line 579
is_textarea_selector(sel) == "textarea" \in sel.words

\* line 580
is_description_field(sel, text) == "description" \in text \/ "description" \in sel.words

\* lines 691 and 765: the requests ranked as description-like
DescriptionLike(sel, text) == is_textarea_selector(sel) \/ is_description_field(sel, text)

\* line 625: whether the fourth try is made
UsesPosition(sel) ==
    sel.words \cap {"input", "textarea", "nth-of-type", "contenteditable"} # {}

IndexSeq(page) == [i \in 1..Len(page) |-> i]

Range(s) == {s[i] : i \in 1..Len(s)}

\* page.locator(<kind>): the fields of a kind, in document order
OfKind(page, kind) == SelectSeq(IndexSeq(page), LAMBDA i : page[i].kind = kind)

\* the `if field_id not in used_input_fields` filter of the candidate loops
UnusedOf(page, s, used) ==
    SelectSeq(s, LAMBDA i : Signature(page[i]) \notin Range(used))

SigsOf(page, s) == [k \in 1..Len(s) |-> Signature(page[s[k]])]

\* the kind of element a selector can match ("any": an id or class selector)
SelectorKind(sel) ==
    IF "textarea" \in sel.words THEN "textarea"
    ELSE IF "input" \in sel.words THEN "input"
    ELSE IF "contenteditable" \in sel.words THEN "editable"
    ELSE "any"

Matching(sel, page) ==
    {i \in 1..Len(page) : SelectorKind(sel) \in {"any", page[i].kind}}

\* page.locator(selector).first: the field it names, 0 when the selector
\* matches none. A bare tag or attribute selector names the first field of the
\* kind; which fields the other selectors match is the page's choice.
Firsts(sel, page) ==
    IF sel.words \in {{"textarea"}, {"contenteditable"}}
    THEN IF Matching(sel, page) = {} THEN {0}
         ELSE {CHOOSE i \in Matching(sel, page) : \A j \in Matching(sel, page) : i <= j}
    ELSE {0} \cup Matching(sel, page)

\* line 693: sort(key=lambda x: (x['top'], -x['area'])), a sorting no later than b
DescriptionKeyLeq(a, b) == a.top < b.top \/ (a.top = b.top /\ a.area >= b.area)

\* line 696: sort(key=lambda x: x['top'])
NameKeyLeq(a, b) == a.top <= b.top

KeyLeq(a, b, descLike) ==
    IF descLike THEN DescriptionKeyLeq(a, b) ELSE NameKeyLeq(a, b)

\* lines 689-699: field_candidates[0] after the (stable) sort
RankedFirst(page, cands, descLike) ==
    CHOOSE i \in Range(cands) :
        \A j \in Range(cands) \ {i} :
            IF i < j THEN KeyLeq(page[i], page[j], descLike)
            ELSE ~KeyLeq(page[j], page[i], descLike)

\* lines 635-645: the scopes of the fourth try, in order
base_selectors ==
    << [within |-> "dialog", kind |-> "editable"],
       [within |-> "modal",  kind |-> "editable"],
       [within |-> "page",   kind |-> "editable"],
       [within |-> "dialog", kind |-> "input"],
       [within |-> "modal",  kind |-> "input"],
       [within |-> "form",   kind |-> "input"],
       [within |-> "page",   kind |-> "textarea"],
       [within |-> "page",   kind |-> "input"],
       [within |-> "page",   kind |-> "input"] >>

\* page.locator(base_sel)
InScope(page, s) == IF s.within = "page" THEN OfKind(page, s.kind) ELSE <<>>

NonEmptyScopes(page) ==
    {k \in 1..Len(base_selectors) : InScope(page, base_selectors[k]) # <<>>}

PositionalResult(typed, field, by, scope) ==
    [typed |-> typed, field |-> field, by |-> by, scope |-> scope]

\* lines 648-716: the loop over the scopes from scope k on; ko: the scopes in
\* which the driver raises (the bare except of line 715 goes on with the next)
RECURSIVE PositionalFrom(_, _, _, _, _, _)
PositionalFrom(k, page, sel, descLike, used, ko) ==
    IF k > Len(base_selectors) THEN PositionalResult(FALSE, 0, "none", 0)
    ELSE LET scope == InScope(page, base_selectors[k])
             count == Len(scope)
             cands == UnusedOf(page, scope, used)
             next  == PositionalFrom(k + 1, page, sel, descLike, used, ko)
         IN  IF count = 0 \/ k \in ko THEN next
             ELSE IF sel.nth # 0 /\ sel.nth <= count
             THEN IF Signature(page[scope[sel.nth]]) \notin Range(used)
                  THEN PositionalResult(TRUE, scope[sel.nth], "nth", k)
                  ELSE next
             ELSE IF cands # <<>>
             THEN PositionalResult(TRUE, RankedFirst(page, cands, descLike), "ranked", k)
             ELSE next

\* lines 765-791: the textarea the last resort takes, given there is one
LastTextareaChoice(page, sel, text, used) ==
    LET textareas == OfKind(page, "textarea")
        cands     == UnusedOf(page, textareas, used)
    IN  IF DescriptionLike(sel, text) /\ cands # <<>>
        THEN RankedFirst(page, cands, TRUE)
        ELSE textareas[1]

InitType ==
    /\ HelperHost
    /\ \E page \in FormPages, sel \in TypeSelectors, text \in TypeTexts :
         \E first \in Firsts(sel, page), U \in SUBSET (1..Len(page)) :
           LET registry == SigsOf(page, SelectSeq(IndexSeq(page), LAMBDA i : i \in U))
           IN  fn = [op |-> "type", sel |-> sel, text |-> text, page |-> page,
                     first |-> first, before |-> registry,
                     used_input_fields |-> registry, st |-> "first",
                     typed |-> FALSE, entered |-> <<>>, by |-> "none",
                     scope |-> 0, ret |-> "none"]

\* the value is in field f; register: whether its signature is appended
Entered(f, by, scope, register) ==
    [fn EXCEPT !.st = "typed", !.typed = TRUE, !.by = by, !.scope = scope,
               !.entered = Append(@, f),
               !.used_input_fields =
                   IF register THEN Append(@, Signature(fn.page[f])) ELSE @]

\* what one of the three tries on the selector can do: fill and register,
\* fill and raise in locator.evaluate, or raise before the fill
DirectOutcomes(first) ==
    IF first = 0 THEN {"fail"} ELSE {"ok", "no_field_id", "fail"}

DirectTry(cur, next) ==
    /\ fn.op = "type" /\ fn.st = cur
    /\ \E d \in DirectOutcomes(fn.first) :
         fn' = IF d = "ok" THEN Entered(fn.first, "direct", 0, TRUE)
               ELSE IF d = "no_field_id"
               THEN [fn EXCEPT !.st = next, !.entered = Append(@, fn.first)]
               ELSE [fn EXCEPT !.st = next]
    /\ UNCHANGED hostAll

\* lines 592-602
FirstTry == DirectTry("first", "second")

\* lines 603-611
SecondTry == DirectTry("second", "third")

\* lines 612-625
ThirdTry ==
    DirectTry("third", IF UsesPosition(fn.sel) THEN "positional" ELSE "last_editable")

\* lines 625-716
PositionalFallback ==
    /\ fn.op = "type" /\ fn.st = "positional"
    /\ \E ko \in SUBSET NonEmptyScopes(fn.page) :
         LET r == PositionalFrom(1, fn.page, fn.sel, DescriptionLike(fn.sel, fn.text),
                                 fn.used_input_fields, ko)
         IN  fn' = IF r.typed THEN Entered(r.field, r.by, r.scope, TRUE)
                   ELSE [fn EXCEPT !.st = "last_editable"]
    /\ UNCHANGED hostAll

\* lines 723-749: typed = True without an append to used_input_fields
LastEditable ==
    /\ fn.op = "type" /\ fn.st = "last_editable"
    /\ LET editables == OfKind(fn.page, "editable")
       IN  \E ok \in BOOLEAN :
             fn' = IF editables # <<>> /\ ok
                   THEN Entered(editables[1], "last_editable", 0, FALSE)
                   ELSE [fn EXCEPT !.st = "last_textarea"]
    /\ UNCHANGED hostAll

\* lines 751-804
LastTextarea ==
    /\ fn.op = "type" /\ fn.st = "last_textarea"
    /\ \E ok \in BOOLEAN :
         fn' = IF OfKind(fn.page, "textarea") # <<>> /\ ok
                  /\ Signature(fn.page[LastTextareaChoice(fn.page, fn.sel, fn.text,
                                                          fn.used_input_fields)])
                       \notin Range(fn.used_input_fields)
               THEN Entered(LastTextareaChoice(fn.page, fn.sel, fn.text,
                                               fn.used_input_fields),
                            "last_textarea", 0, TRUE)
               ELSE [fn EXCEPT !.st = "last_input"]
    /\ UNCHANGED hostAll

\* lines 806-866
LastInput ==
    /\ fn.op = "type" /\ fn.st = "last_input"
    /\ LET cands == UnusedOf(fn.page, OfKind(fn.page, "input"), fn.used_input_fields)
       IN  \E ok \in BOOLEAN :
             fn' = IF cands # <<>> /\ ok
                   THEN Entered(RankedFirst(fn.page, cands, FALSE), "last_input", 0, TRUE)
                   ELSE [fn EXCEPT !.st = "keyboard"]
    /\ UNCHANGED hostAll

\* lines 868-887: no dialog holds a focusable element, so count() is 0 and
\* nothing is typed; when the locator raises, the keys go to whatever has the
\* focus (field 0), or keyboard.type raises as well
LastKeyboard ==
    /\ fn.op = "type" /\ fn.st = "keyboard"
    /\ \E d \in {"none", "blind", "raise"} :
         fn' = IF d = "none" THEN [fn EXCEPT !.st = "done", !.ret = "ok"]
               ELSE IF d = "blind"
               THEN [fn EXCEPT !.st = "typed", !.typed = TRUE, !.by = "keyboard",
                               !.entered = Append(@, 0)]
               ELSE [fn EXCEPT !.st = "done", !.ret = "raise"]
    /\ UNCHANGED hostAll

\* lines 891-896: _capture_screenshot_after_action, outside every try
TypeShot ==
    /\ fn.op = "type" /\ fn.st = "typed"
    /\ \E shot \in {"ok", "fail"} :
         fn' = [fn EXCEPT !.st = "done", !.ret = IF shot = "ok" THEN "ok" ELSE "raise"]
    /\ UNCHANGED hostAll

NextType ==
    \/ FirstTry
    \/ SecondTry
    \/ ThirdTry
    \/ PositionalFallback
    \/ LastEditable
    \/ LastTextarea
    \/ LastInput
    \/ LastKeyboard
    \/ TypeShot

SpecType == InitType /\ [][NextType]_vars

----------------------------------------------------------------------------
(* if_url_contains inside a step of execute_plan: the location recorded at  *)
(* step start (lines 1392-1394) and the location the handler reads when it  *)
(* is dispatched (lines 341-363)                                            *)

\* the most path segments of the locations of a step
MaxBranchSegs == 2

BranchSegs == {"Issues", "views", "42"}

BranchUrls == UNION {[1..n -> BranchSegs] : n \in 0..MaxBranchSegs}

\* the patterns of if_url_contains('<pattern>', proceed_to_step=N)
UrlPatterns == {"issues", "Issues", "view", "login"}

\* the location recorded at step start, taken for the current one
StepStartLocation == fn.previous_url

\* line 348: current_url = self.page.url.lower() reads the page
DispatchLocation == fn.url

\* line 349: pattern.lower() in current_url
PatternIn(pattern, url) ==
    \E i \in DOMAIN url : LowerSeg(pattern) \in KeywordsOf(LowerSeg(url[i]))

\* line 1385: previous_url = None
InitBranch ==
    /\ HelperHost
    /\ \E url \in BranchUrls, pattern \in UrlPatterns, tgt \in CondTargets,
          urlOk \in BOOLEAN :
         fn = [op |-> "branch", url |-> url, previous_url |-> <<"None">>,
               pattern |-> pattern, tgt |-> tgt, urlOk |-> urlOk, st |-> "outside",
               res |-> CondResult("none", 0, "none", FALSE)]

\* lines 1392-1394: url_state_before and previous_url are read at step start
RecordStepStart ==
    /\ fn.op = "branch" /\ fn.st = "outside"
    /\ fn' = [fn EXCEPT !.st = "step", !.previous_url = fn.url]
    /\ UNCHANGED hostAll

\* an earlier action of the step, or the page itself, changes the location
EarlierActionNavigates ==
    /\ fn.op = "branch" /\ fn.st = "step"
    /\ \E url \in BranchUrls \ {fn.url} : fn' = [fn EXCEPT !.url = url]
    /\ UNCHANGED hostAll

\* lines 341-363
DispatchIfUrlContains ==
    /\ fn.op = "branch" /\ fn.st = "step"
    /\ fn' = [fn EXCEPT !.st = "done",
                        !.res = IfUrlContains(TRUE, fn.urlOk,
                                              PatternIn(fn.pattern, DispatchLocation),
                                              fn.tgt)]
    /\ UNCHANGED hostAll

NextBranch == RecordStepStart \/ EarlierActionNavigates \/ DispatchIfUrlContains

SpecBranch == InitBranch /\ [][NextBranch]_vars

----------------------------------------------------------------------------
(* The press handler of execute_action (src/playwright_executor.py, lines   *)
(* 1246-1338), evaluated on a page given by its buttons                     *)

\* the most buttons on a page
MaxPressButtons == 2

\* lines 1258-1261
submit_button_texts ==
    << "Create", "Submit", "Save", "Add", "Confirm", "Done",
       "Finish", "Apply", "OK", "Continue", "Next", "Send" >>

\* a button: its text, whether it is visible, whether it has type="submit",
\* and whether a click on it succeeds within the timeout
PressButtons ==
    [label : {"Create", "Save", "Cancel"}, visible : BOOLEAN, submit : BOOLEAN,
     clickOk : BOOLEAN]

\* the buttons of a page in document order
PressPages == UNION { [1..n -> PressButtons] : n \in 0..MaxPressButtons }

PressKeys == {"Enter", "enter", "Escape", "c"}

\* line 1253: key.upper()
UpperKey(key) == IF key = "enter" THEN "ENTER" ELSE IF key = "Enter" THEN "ENTER" ELSE key

\* locator(...).first: the first of the matching elements in the document,
\* visible or not; 0 when there is none
FirstButton(matching) ==
    IF matching = {} THEN 0
    ELSE CHOOSE i \in matching : \A j \in matching : i <= j

\* the buttons has-text("<label>") matches
WithLabel(page, label) == {i \in DOMAIN page : page[i].label = label}

\* lines 1266-1269: count() > 0 and is_visible() of the first match, then
\* the click
Clickable(page, i) == i # 0 /\ page[i].visible /\ page[i].clickOk

\* lines 1264-1274: the loop over the labels from label k on; the button
\* clicked, 0 when the loop ends without a click
RECURSIVE LabelledFrom(_, _)
LabelledFrom(k, page) ==
    IF k > Len(submit_button_texts) THEN 0
    ELSE LET first == FirstButton(WithLabel(page, submit_button_texts[k]))
         IN  IF Clickable(page, first) THEN first ELSE LabelledFrom(k + 1, page)

\* lines 1276-1284: button[type="submit"]
GenericSubmit(page) ==
    LET first == FirstButton({i \in DOMAIN page : page[i].submit})
    IN  IF Clickable(page, first) THEN first ELSE 0

\* lines 1253-1289: the button press('Enter') clicks, 0 when it sends the key
EnterClicks(page) ==
    IF LabelledFrom(1, page) # 0 THEN LabelledFrom(1, page) ELSE GenericSubmit(page)

\* lines 1294-1329: the shortcut 'c' looks for a button carrying create, add
\* or new; whether the driver accepts the selector with its trailing i is
\* the driver's choice
ShortcutClicks(page) ==
    {0} \cup (LET first == FirstButton(WithLabel(page, "Create"))
              IN  IF Clickable(page, first) THEN {first} ELSE {})

PressResult(clicked, sent, ret) == [clicked |-> clicked, sent |-> sent, ret |-> ret]

InitPress ==
    /\ HelperHost
    /\ \E page \in PressPages, key \in PressKeys :
         fn = [op |-> "press", page |-> page, key |-> key, st |-> "start",
               res |-> PressResult(0, "none", "none")]

\* lines 1253-1289
PressEnter ==
    /\ fn.op = "press" /\ fn.st = "start" /\ UpperKey(fn.key) = "ENTER"
    /\ \/ /\ EnterClicks(fn.page) # 0
          /\ fn' = [fn EXCEPT !.st = "pressed", !.res.clicked = EnterClicks(fn.page)]
       \/ /\ EnterClicks(fn.page) = 0
          /\ \E ok \in BOOLEAN :
               fn' = IF ok THEN [fn EXCEPT !.st = "pressed", !.res.sent = fn.key]
                     ELSE [fn EXCEPT !.st = "done", !.res.ret = "raise"]
    /\ UNCHANGED hostAll

\* lines 1290-1334
PressOtherKey ==
    /\ fn.op = "press" /\ fn.st = "start" /\ UpperKey(fn.key) # "ENTER"
    /\ \E c \in (IF fn.key = "c" THEN ShortcutClicks(fn.page) ELSE {0}), ok \in BOOLEAN :
         fn' = IF c # 0 THEN [fn EXCEPT !.st = "pressed", !.res.clicked = c]
               ELSE IF ok THEN [fn EXCEPT !.st = "pressed", !.res.sent = fn.key]
               ELSE [fn EXCEPT !.st = "done", !.res.ret = "raise"]
    /\ UNCHANGED hostAll

\* lines 1336-1338: _capture_screenshot_after_action, outside every try
PressShot ==
    /\ fn.op = "press" /\ fn.st = "pressed"
    /\ \E shot \in {"ok", "fail"} :
         fn' = [fn EXCEPT !.st = "done", !.res.ret = IF shot = "ok" THEN "ok" ELSE "raise"]
    /\ UNCHANGED hostAll

NextPress == PressEnter \/ PressOtherKey \/ PressShot

SpecPress == InitPress /\ [][NextPress]_vars

----------------------------------------------------------------------------
(* Properties *)

NoDuplicates(seq) ==
    \A i, j \in 1..Len(seq) : i # j => seq[i] # seq[j]

\* the plan step that carries number n
StepNumbered(n) == plan[CHOOSE i \in 1..Len(plan) : plan[i].step = n]

\* the action the iteration record is about
IterAction == StepNumbered(iter.step).actions[iter.k]

IterGoal == StepNumbered(iter.step).goal

\* C1: branch resolution is a goto. After an action returned a branch signal
\* to a step number N the plan carries, the step the runner enters next is
\* the step numbered N (and the run does not end instead).
C1_BranchIsGoto ==
    (should_skip /\ skip_to_step # 0 /\ HasStep(skip_to_step))
        => /\ pc = "step_start" => CurStep.step = skip_to_step
           /\ pc # "finish"

\* C2: the end-to-end scenario on a site with no login affordance: no action
\* of step 3 is ever dispatched, and a run that ended without a failed action
\* has dispatched the three actions of step 4 and entered "Q1 Launch" once.
C2_EndToEnd ==
    (plan = PlanE2E /\ site = "open")
        => /\ \A k \in 1..3 : <<3, k>> \notin dispatched
           /\ (pc = "done" /\ outcome = "returned" /\ result.success /\ ~anyFailed)
                 => /\ \A k \in 1..3 : <<4, k>> \in dispatched
                    /\ Cardinality({i \in 1..Len(fills) : fills[i] = "Q1 Launch"}) = 1

\* C3: within one step no field signature is filled twice: as long as no
\* action failed, the registry of the current step holds no signature twice.
C3_NoFieldReuse ==
    ~anyFailed => NoDuplicates(used_input_fields)

\* the login-action predicate as the claim words it
ClaimedLoginAction(a, goal) ==
    \/ "pwd_sel" \in a.feat
    \/ "email_ph" \in a.feat
    \/ "pwd_ph" \in a.feat
    \/ "type_email" \in a.feat /\ a.feat \cap {"form", "textarea"} = {}
    \/ "submit_btn" \in a.feat /\ goal \cap LoginGoalWords # {}

\* C4: login idempotence. An action that matches the login-action predicate
\* and is reached with login_completed true is skipped: it is never handed to
\* execute_action and the runner calls no Page Driver operation for it.
C4_LoginIdempotence ==
    (iter.k >= 1 /\ iter.loginDone /\ ClaimedLoginAction(IterAction, IterGoal))
        => /\ iter.fate \in {"pending", "skipped"}
           /\ iter.ops = {}
           /\ <<iter.step, iter.k>> \notin dispatched

C4_Witness ==
    /\ iter.k >= 1 /\ iter.loginDone /\ ClaimedLoginAction(IterAction, IterGoal)
    /\ iter.fate = "skipped"
    /\ ~is_login_step(IterGoal)

\* C5: a per-action failure is soft. When execute_action raises for action k
\* the step is marked unsuccessful and the runner goes on with action k+1 of
\* the same step, or with the end of the step after the last action; the run
\* has not ended and no result is set; and the end of an unsuccessful step
\* leads to the next step (or the end of the plan), never to the failure exit.
C5_SoftFailure ==
    [][ /\ (pc = "action_body" /\ iter'.fate = "raised")
            => /\ ~step_successful'
               /\ stepIdx' = stepIdx
               /\ actIdx' = actIdx + 1
               /\ pc' = (IF actIdx < Len(CurStep.actions)
                         THEN "action_check" ELSE "step_end")
               /\ outcome' = "running" /\ ~result'.set
        /\ (pc = "step_end" /\ ~step_successful)
            => /\ pc' = (IF stepIdx < Len(plan) THEN "step_start" ELSE "finish")
               /\ ~result'.set
      ]_vars

C5_Witness ==
    /\ iter.fate = "raised"
    /\ pc = "action_check"
    /\ actIdx = iter.k + 1
    /\ ~step_successful

\* C6: run_task always returns a structured result: when it has ended it has
\* returned (not raised), the record is set, and a record with success false
\* carries an error string.
C6_AlwaysStructuredResult ==
    pc = "done"
        => /\ outcome = "returned"
           /\ result.set
           /\ ~result.success => result.error # "none"

\* C7: a Planner failure aborts the run before execution starts: once
\* generate_navigation_plan has raised, execute_plan is never invoked, no
\* action is dispatched, and the record run_task returns has success false
\* and the planner's error as its error string.
C7_PlannerFailureAborts ==
    exc = "planner"
        => /\ ~executePlanCalled
           /\ dispatched = {}
           /\ pc \in {"except", "cleanup", "done"}
           /\ pc \in {"cleanup", "done"} => result = Failure("planner")
           /\ outcome = "returned" => result = Failure("planner")

C7_Witness ==
    exc = "planner" /\ pc = "done" /\ outcome = "returned" /\ ~result.success

\* a transition in which the runner ran the manual-login wait and it returned
HandshakeReturned ==
    /\ pc \in {"step_start", "action_check", "action_body"}
    /\ iter'.handshake \in {"detected", "timeout"}
    /\ pc = "action_body" => iter.handshake = "none"

\* C8: handshake completion. A login page detected by the runner while
\* login_completed is false leads to the manual-login wait; when the wait
\* returns, on detection as on timeout, login_completed is true, no action
\* was dispatched meanwhile, the run has not failed and the step is not
\* marked unsuccessful.
C8_HandshakeCompletes ==
    [][ /\ (pc = "action_check" /\ ~login_completed /\ loginPage)
            => iter'.handshake # "none"
        /\ HandshakeReturned
            => /\ login_completed'
               /\ dispatched' = dispatched
               /\ pc' # "plan_failed" /\ ~result'.set /\ outcome' = "running"
               /\ step_successful' = (pc = "step_start" \/ step_successful)
      ]_vars

C8_Witness ==
    /\ iter.handshake = "timeout"
    /\ login_completed
    /\ step_successful
    /\ pc \in {"action_check", "action_body", "step_end"}

C10_ScreenshotKeepsBranch ==
    (iter.k >= 1 /\ iter.fate = "returned" /\ iter.out.found)
        => iter.out.sig = "branch"

\* the position in the plan of the step numbered n
PositionOf(n) == CHOOSE i \in 1..Len(plan) : plan[i].step = n

\* C11: execution is strictly sequential. An action is handed to
\* execute_action only when every earlier action of its step has returned,
\* raised or been skipped, and it has itself returned or raised before
\* anything else happens; within a step actions are dispatched in listed
\* order and never twice; every action dispatched before belongs to this
\* step or to a step executed earlier; and the runner leaves a step only when
\* each of its actions has returned, raised or been skipped (the actions after
\* a branching action are skipped by the branch).
C11_Sequential ==
    /\ [](pc = "step_end"
            => \A k \in 1..Len(CurStep.actions) :
                  k \in resolved \/ (should_skip /\ k > actIdx))
    /\ [][ dispatched' # dispatched
            => /\ current_step = CurStep.step
               /\ <<current_step, actIdx>> \notin dispatched
               /\ dispatched' = dispatched \cup {<<current_step, actIdx>>}
               /\ \A j \in 1..(actIdx - 1) : j \in resolved
               /\ actIdx \in resolved'
               /\ iter'.fate \in {"returned", "raised"}
               /\ \A d \in dispatched :
                     /\ d[1] = current_step => d[2] < actIdx
                     /\ d[1] # current_step => PositionOf(d[1]) < stepIdx
          ]_vars

C11_Witness ==
    /\ pc = "action_body"
    /\ actIdx = 3
    /\ <<current_step, 1>> \in dispatched
    /\ <<current_step, 2>> \in dispatched
    /\ \E d \in dispatched : d[1] # current_step

\* C12: the Page Driver resource is released on every exit of run_task:
\* when run_task has ended, normally, by an error or by an interrupt, the
\* browser is closed and the driver is stopped.
C12_ResourceReleased ==
    pc = "done" => ~browserOpen /\ ~driverOn

\* C17: the used-field registry is reset at the start of every step: when
\* the first action of a step is dispatched the registry is empty and every
\* field of the page is free, whatever was registered in earlier steps.
C17_RegistryReset ==
    [][ (dispatched' # dispatched
            /\ \A d \in dispatched : d[1] # current_step)
            => /\ used_input_fields = << >>
               /\ UnusedFields = Fields
      ]_vars

C17_Witness ==
    /\ Len(fills) >= 2
    /\ Len(used_input_fields) = 1
    /\ iter.k >= 1 /\ iter.fate = "returned" /\ iter.out.fill # 0
    /\ \A k \in 1..(iter.k - 1) : <<iter.step, k>> \notin dispatched

\* C18: the run result aggregates the captured artifacts: when execute_plan
\* has built its result, every screenshot file written during the run has an
\* entry in the screenshots list. The list only receives end-of-step
\* captures, so no file of another kind may have been written.
C18_ScreenshotsAggregated ==
    (executePlanCalled /\ result.set)
        => /\ captured \subseteq {"end_of_step"}
           /\ (captured = {}) = (screenshots = << >>)

\* an action string execute_action does not recognize: no known prefix, or
\* a known prefix with arguments that do not match its pattern
Unrecognized(a) == a.kind = "unknown" \/ ~Parses(a)

\* C19: an unrecognized action is a no-op: execute_action returns the
\* continue signal without raising, enters nothing into a field, leaves the
\* registry, the page and the captured files as they were; and when the
\* runner's own wait after it returns, the step is not marked unsuccessful
\* and the runner goes on with the next action of the step.
C19_UnknownIsNoOp ==
    [][ (pc = "action_body" /\ dispatched' # dispatched /\ Unrecognized(CurAction))
            => /\ iter'.out = Out("ok", 0, 0, loginPage, FALSE, FALSE, "none")
               /\ UNCHANGED <<used_input_fields, fills, captured, loginPage,
                              should_skip, skip_to_step>>
               /\ iter'.fate = "returned"
                     => /\ step_successful' = step_successful
                        /\ anyFailed' = anyFailed
                        /\ actIdx' = actIdx + 1
                        /\ pc' = (IF actIdx < Len(CurStep.actions)
                                  THEN "action_check" ELSE "step_end")
      ]_vars

C19_Witness ==
    /\ iter.k >= 1
    /\ Unrecognized(IterAction)
    /\ ~Parses(IterAction)
    /\ iter.fate = "returned"
    /\ <<iter.step, iter.k>> \in dispatched
    /\ pc = "action_check"

\* the page shows a visible element whose text equals the phrase together
\* with a visible element that merely contains it
ExactAmongPartial(page) ==
    /\ \E i \in DOMAIN page : page[i].txt = "exact" /\ page[i].visible
    /\ \E j \in DOMAIN page : page[j].txt = "partial" /\ page[j].visible

\* C13: exact text match is preferred over synonym and partial match: on a
\* page that shows a visible exact-match element together with visible
\* elements containing the phrase, click and if_element_exists click an
\* exact-match element and nothing else, even when every click the driver is
\* asked for on a visible element succeeds and the detection does not raise.
C13_ExactPreferred ==
    (/\ fn.op \in {"click_text", "exists_text"} /\ fn.st = "done"
     /\ ExactAmongPartial(fn.page)
     /\ \A i \in DOMAIN fn.page : fn.page[i].visible => fn.page[i].clickOk
     /\ fn.op = "exists_text" => fn.res.found # 0)
        => /\ fn.res.clicked \in DOMAIN fn.page
           /\ fn.page[fn.res.clicked].txt = "exact"

\* C14: the synonym fallback applies to the configured verbs only: for a
\* phrase that is not itself one of the verbs click_text_element never clicks
\* by its synonym strategy, and for a phrase unrelated to the verbs on a page
\* with no element containing it, it raises and clicks nothing.
C14_SynonymsOnlyForVerbs ==
    (fn.op = "click_text" /\ fn.st = "done")
        => /\ fn.phrase # "verb" => fn.res.by # 2
           /\ (fn.phrase \in {"plain", "meta"}
                 /\ \A i \in DOMAIN fn.page : ~Contains(fn.page[i]))
                 => fn.res.raised /\ fn.res.clicked = 0

SegmentHas(seg, k) ==
    \/ seg = "projects" /\ k \in {"project", "projects"}
    \/ seg \in {"issues", "Issues"} /\ k \in {"issue", "issues"}
    \/ seg = "views" /\ k \in {"view", "views"}
    \/ seg \in {"new", "NEW"} /\ k = "new"
    \/ seg = "login" /\ k = "login"

LocationHas(url, keywords) ==
    \E i \in DOMAIN url : \E k \in keywords : SegmentHas(url[i], k)

ScoringScenario(v, m) ==
    /\ fn.op = "click_symbol"
    /\ fn.goal = <<"add", "a", "view">>
    /\ DOMAIN fn.page = {v, m} /\ v # m
    /\ fn.page[v].words = {"add", "view"} /\ fn.page[v].x > 30
    /\ fn.page[m].words = {"add", "member"} /\ fn.page[m].x < 30

\* C16 as stated: in the scenario "+ Add view" scores strictly higher than
\* "+ Add member", is clicked, and "+ Add member" is not clicked.
C16_SymbolScoring ==
    \A v, m \in 1..2 :
        ScoringScenario(v, m)
            => /\ Score(fn.page[v], ContextOfGoal(fn.goal))
                    > Score(fn.page[m], ContextOfGoal(fn.goal))
               /\ fn.st = "done" => fn.res.clicked = v

\* C16 amended: in the scenario "+ Add view" scores strictly higher (28
\* against 13) and is the first button a click is attempted on; it is the
\* one clicked whenever the click on it succeeds, and "+ Add member" is
\* only attempted after the click on "+ Add view" failed.
C16_SymbolScoringAmended ==
    \A v, m \in 1..2 :
        ScoringScenario(v, m)
            => /\ Score(fn.page[v], ContextOfGoal(fn.goal)) = 28
               /\ Score(fn.page[m], ContextOfGoal(fn.goal)) = 13
               /\ fn.st = "done"
                    => /\ v \in fn.res.tried
                       /\ fn.page[v].clickOk => (fn.res.clicked = v /\ fn.res.tried = {v})
                       /\ m \in fn.res.tried => ~fn.page[v].clickOk
                       /\ fn.res.clicked = m => ~fn.page[v].clickOk

C16_Witness ==
    /\ ScoringScenario(2, 1)
    /\ fn.st = "done"
    /\ fn.page[1].clickOk /\ fn.page[2].clickOk
    /\ fn.res.clicked = 2 /\ fn.res.by = 1 /\ fn.res.tried = {2}

\* a conditional action done: if_url_contains, or if_element_exists (with or
\* without 'else ' in front) on a text, raw-selector or symbol target
ConditionalDone ==
    /\ fn.st = "done"
    /\ \/ fn.op \in {"exists_text", "exists_css"}
       \/ fn.op = "cond" /\ fn.kind = "if_element_exists"
       \/ fn.op = "cond" /\ fn.kind = "if_url_contains" /\ ~fn.els

\* a driver call of the check failed and nothing recovered from it
CheckFailed ==
    \/ fn.op \in {"exists_text", "exists_css"} /\ ~fn.probe
    \/ fn.op = "cond" /\ fn.kind = "if_url_contains" /\ fn.parses /\ ~fn.urlOk
    \/ fn.op = "cond" /\ fn.kind = "if_element_exists"
          /\ ~CallBinds(SymbolCallArgs, WrapperParams)

\* C21: if_element_exists and if_url_contains never raise: each returns one
\* of continue, branchTo(N) or conditionFalse, whatever the page holds and
\* whichever driver call fails, and a failed check gives conditionFalse.
C21_ConditionalsSignal ==
    ConditionalDone
        => /\ ~fn.res.raised
           /\ fn.res.sig \in {"ok", "branch", "cond_false"}
           /\ CheckFailed => fn.res.sig = "cond_false"

C21_Witness ==
    /\ ConditionalDone
    /\ fn.op = "cond" /\ fn.kind = "if_url_contains"
    /\ fn.parses /\ ~fn.urlOk /\ fn.urlHas
    /\ fn.res.sig = "cond_false"

\* an 'else '-prefixed action done, its arguments matching its pattern and
\* every driver call answering
ElseActionDone(kind) ==
    /\ fn.op = "cond" /\ fn.st = "done"
    /\ fn.els /\ fn.kind = kind
    /\ fn.parses /\ fn.urlOk /\ fn.driverOk

\* C23: an 'else'-prefixed conditional or action is evaluated like its
\* unprefixed form: 'else if_url_contains(P, proceed_to_step=N)' branches to
\* N when the location contains P and gives conditionFalse otherwise, and
\* 'else press_key(K)' and 'else wait_for(T)' press the key and wait.
C23_ElseLikeUnprefixed ==
    /\ ElseActionDone("if_url_contains")
          => fn.res = IfUrlContains(fn.parses, fn.urlOk, fn.urlHas, fn.tgt)
    /\ ElseActionDone("press_key") => fn.res.did = "press_key"
    /\ ElseActionDone("wait_for") => fn.res.did = "wait_for"

\* C24: if_element_exists('symbol=<c>', proceed_to_step=N) clicks the
\* resolved element once and branches to N whenever the page shows a
\* clickable element that bears the symbol.
C24_SymbolConditional ==
    ( /\ fn.op = "cond" /\ fn.st = "done"
      /\ fn.kind = "if_element_exists"
      /\ \E i \in DOMAIN fn.page : fn.page[i].clickOk )
        => /\ fn.res.sig = "branch"
           /\ fn.res.tgt = fn.tgt
           /\ fn.res.did = "click"

\* the iteration record is about a conditional of the current step that was
\* handed to execute_action, and the runner is about to look at the next
\* action of that step
MovedPastConditional ==
    /\ pc = "action_check"
    /\ iter.k >= 1 /\ iter.step = current_step /\ iter.k = actIdx - 1
    /\ iter.fate \in {"returned", "raised"}
    /\ IterAction.kind = "if_element_exists"

\* C22: in an if / else-if / else chain the branch taken is that of the
\* first condition in listed order that holds: the runner goes on to the
\* next action of the step only after a condition that did not hold, and
\* never after a branch signal was produced.
C22_ChainFirstHolds ==
    MovedPastConditional
        => /\ ~iter.out.found
           /\ iter.out.sig # "branch"

\* C27: after the handshake only login-related actions are skipped: an
\* action the runner skips matches the login-action predicate, also in a
\* step whose goal mentions login.
C27_OnlyLoginActionsSkipped ==
    (iter.k >= 1 /\ iter.fate = "skipped")
        => is_login_action(IterAction, IterGoal)

\* C25: the poll reports success only on a fresh non-login determination:
\* it returns True only if, at the poll it returns from, is_login_page
\* answered false and either the location differs from the one at the start
\* of the wait and holds no login keyword, or a post-login indicator is
\* visible; while is_login_page keeps answering true it never returns True.
C25_FreshNonLogin ==
    (pollPc = "returned" /\ pollRet)
        => /\ fn.op = "poll"
           /\ \/ fn.urlDiffers /\ ~fn.urlKeyword /\ ~fn.loginA
              \/ fn.shown /\ ~fn.loginB
           /\ ~(fn.loginA /\ fn.loginB)

C25_Witness ==
    /\ pollPc = "returned" /\ pollRet
    /\ fn.op = "poll"
    /\ fn.urlDiffers /\ ~fn.urlKeyword /\ ~fn.loginA
    /\ ~fn.shown /\ fn.loginB
    /\ elapsed > check_interval

\* C26: is_login_page answers true exactly when the page shows a visible
\* email/username-like input together with a visible password-like input,
\* or the location contains one of the login paths; it never raises.
C26_LoginPredicate ==
    [][ (fn.op = "is_login_page" /\ fn'.n = fn.n + 1 /\ fn.urlOk)
          => fn'.res = ( \/ fn.email /\ fn.password
                         \/ HasLoginPath(LowerLocation(fn.loc)) ) ]_vars

\* a call of click_text_element done
ClickTextDone == fn.op = "click_text" /\ fn.st = "done"

\* the first element the regex lookup of the phrase names, 0 for none
FirstContaining ==
    IF RegexSafe(fn.phrase)
    THEN FirstOf({i \in DOMAIN fn.page : Contains(fn.page[i])})
    ELSE 0

\* strategy k of the claim's list can click an element of the page: 1 exact
\* match, 2 synonyms, 3 partial match on any element, 4 partial match on
\* buttons, 6 role lookup (5, the click on the ancestor of an element that
\* is not visible, depends on the ancestor alone)
StrategyCanClick(k) ==
    LET page == fn.page
        idx  == DOMAIN page
        firstExact == FirstOf({i \in idx : page[i].txt = "exact" /\ page[i].visible})
        firstRole  == FirstOf({i \in idx : /\ page[i].button /\ page[i].visible
                                           /\ Contains(page[i])})
    IN  CASE k = 1 -> RegexSafe(fn.phrase) /\ firstExact # 0 /\ page[firstExact].clickOk
          [] k = 2 -> /\ SynonymsApply(fn.phrase)
                      /\ \E i \in idx : /\ page[i].button /\ page[i].txt \in SynonymKinds
                                         /\ page[i].clickOk
          [] k = 3 -> FirstContaining # 0 /\ page[FirstContaining].clickOk
          [] k = 4 -> \E i \in idx : page[i].button /\ Contains(page[i]) /\ page[i].clickOk
          [] k = 5 -> FirstContaining # 0 /\ ~page[FirstContaining].visible
          [] k = 6 -> RegexSafe(fn.phrase) /\ firstRole # 0 /\ page[firstRole].clickOk

C29_SynonymOrder ==
    ( /\ ClickTextDone
      /\ fn.phrase = "verb"
      /\ \A i \in DOMAIN fn.page : fn.page[i].txt \in SynonymKinds /\ fn.page[i].button
                                     /\ fn.page[i].clickOk
      /\ \E i \in DOMAIN fn.page : fn.page[i].txt = "synonym" )
        => /\ fn.res.by = 2
           /\ fn.page[fn.res.clicked].txt = "synonym"

\* a call of click_symbol_element done
ClickSymbolDone == fn.op = "click_symbol" /\ fn.st = "done"

\* the score the call gave the button at position i
ScoreAt(i) == Score(fn.page[i], ContextOfGoal(fn.goal))

\* the click attempts on a set of candidates: in non-increasing score order,
\* equal scores in document order, each candidate at most once, nothing
\* after the first click that succeeds, and no fallback strategy while a
\* candidate is untried
AttemptsInOrder(cands) ==
    LET a == fn.res.attempts
    IN  /\ \A k \in DOMAIN a : a[k] \in cands
        /\ \A k, l \in DOMAIN a :
              k < l => /\ ScoreAt(a[k]) >= ScoreAt(a[l])
                       /\ ScoreAt(a[k]) = ScoreAt(a[l]) => a[k] < a[l]
                       /\ ~fn.page[a[k]].clickOk
        /\ \A c \in cands :
              (\A k \in DOMAIN a : a[k] # c)
                 => \E k \in DOMAIN a : /\ fn.page[a[k]].clickOk
                                        /\ \/ ScoreAt(a[k]) > ScoreAt(c)
                                           \/ ScoreAt(a[k]) = ScoreAt(c) /\ a[k] < c
        /\ fn.res.by = 1 <=> (a # << >> /\ fn.page[a[Len(a)]].clickOk)
        /\ fn.res.by = 1 => fn.res.clicked = a[Len(a)]

ClaimedIntended ==
    IF fn.intended = {} THEN 0
    ELSE (IF fn.intended \subseteq fn.b.words THEN 50 ELSE 0)
         + (30 * Cardinality(fn.intended \cap fn.b.words)) \div Cardinality(fn.intended)

ClaimedContext == 10 * Cardinality(fn.ctx \cap fn.b.words)

ClaimedPosition == IF fn.b.x > 30 THEN 5 ELSE 0

ClaimedPenalty == 5 * Cardinality((ConflictingKeywords \cap fn.b.words) \ fn.ctx)

----------------------------------------------------------------------------
(* The type handler *)

\* the ranked positional fallback entered the value
RankedDone == fn.op = "type" /\ fn.by = "ranked"

\* the field that received the value last
Chosen == fn.page[fn.entered[Len(fn.entered)]]

\* the unused candidate fields of the scope the ranking ran in
ScopeUnused ==
    {fn.page[i] : i \in Range(UnusedOf(fn.page, InScope(fn.page, base_selectors[fn.scope]),
                                       fn.before))}

\* C32: field ranking. Among the unused fields of the scope, a
\* description-like request (textarea selector, or 'description' in the
\* selector or the value) gets the field lowest on the page, the larger one
\* among equally low fields; a name-like request gets the topmost unused
\* field; a field whose signature is in the used set is never the one chosen.
C32_FieldRanking ==
    RankedDone =>
        /\ Signature(Chosen) \notin Range(fn.before)
        /\ IF DescriptionLike(fn.sel, fn.text)
           THEN \A g \in ScopeUnused :
                    g.top < Chosen.top \/ (g.top = Chosen.top /\ g.area <= Chosen.area)
           ELSE \A g \in ScopeUnused : Chosen.top <= g.top

\* the type action returned or raised
TypeReturned == fn.op = "type" /\ fn.st = "done"

\* C33: every successful fill registers its field. When a type action that
\* entered its value into an element returns, the signature (top, left) of
\* that element is in the used-field registry; a type action that entered
\* no value and raised leaves the registry as it found it.
C33_FillRegisters ==
    TypeReturned =>
        /\ (fn.ret = "ok" /\ fn.typed /\ fn.entered[Len(fn.entered)] # 0)
               => Signature(Chosen) \in Range(fn.used_input_fields)
        /\ (fn.ret = "raise" /\ ~fn.typed) => fn.used_input_fields = fn.before

\* the same for the strategies that append to used_input_fields
C33_RegisteringStrategies ==
    (TypeReturned /\ fn.typed /\ fn.by \notin {"last_editable", "keyboard"})
        => Signature(Chosen) \in Range(fn.used_input_fields)

----------------------------------------------------------------------------
(* Branching on the location *)

\* the pattern without regard to case
PatternWord(p) ==
    CASE p \in {"issues", "Issues"} -> "issues"
      [] p \in {"new", "NEW"}       -> "new"
      [] OTHER                      -> p

\* C34: the location is never stale in a branching decision. Whatever the
\* location was at step start and however it changed since, if_url_contains(P, N)
\* signals the branch to N exactly when the location the page has at dispatch
\* contains P without regard to case, and a failed condition otherwise; it
\* raises nothing and performs no click, fill or navigation.
C34_UrlNeverStale ==
    (fn.op = "branch" /\ fn.st = "done") =>
        /\ fn.res.did = "none" /\ ~fn.res.raised
        /\ fn.res.sig \in {"branch", "cond_false"}
        /\ fn.urlOk =>
             ((fn.res.sig = "branch" /\ fn.res.tgt = fn.tgt)
                <=> LocationHas(fn.url, {PatternWord(fn.pattern)}))

\* the location at step start held the pattern, the one at dispatch does not,
\* and the other way round with a location in another case than the pattern
C34_Witness ==
    /\ fn.op = "branch" /\ fn.st = "done" /\ fn.urlOk
    /\ \/ /\ fn.previous_url = <<"views">> /\ fn.url = <<"42", "Issues">>
          /\ fn.pattern = "issues" /\ fn.res.sig = "branch"
       \/ /\ fn.previous_url = <<"Issues">> /\ fn.url = <<"views", "42">>
          /\ fn.pattern = "Issues" /\ fn.res.sig = "cond_false"

----------------------------------------------------------------------------
(* Pressing Enter *)

\* press('Enter') went through its search and its key press
EnterDone ==
    fn.op = "press" /\ fn.key \in {"Enter", "enter"} /\ fn.st \in {"pressed", "done"}
    /\ (fn.res.clicked # 0 \/ fn.res.sent # "none")

SubmitLabels == {submit_button_texts[k] : k \in DOMAIN submit_button_texts}

\* the visible buttons with a submit-like label, and those of type submit
VisibleLabelled == {i \in DOMAIN fn.page : fn.page[i].visible /\ fn.page[i].label \in SubmitLabels}
VisibleGeneric == {i \in DOMAIN fn.page : fn.page[i].visible /\ fn.page[i].submit}

\* the first label of the list that a visible button carries
FirstVisibleLabel ==
    submit_button_texts[
        CHOOSE k \in DOMAIN submit_button_texts :
            /\ \E i \in VisibleLabelled : fn.page[i].label = submit_button_texts[k]
            /\ \A m \in 1..(k - 1) :
                 \A i \in VisibleLabelled : fn.page[i].label # submit_button_texts[m]]

\* C35: pressing Enter is a fallback to clicking a submit button. The Enter
\* key is sent only when the page has no visible button with a submit-like
\* label and no visible button of type submit; otherwise exactly one such
\* button is clicked, one carrying the first label of the list that a visible
\* button carries, and the key is not sent.
C35_EnterIsFallback ==
    EnterDone =>
        /\ fn.res.sent # "none" => (VisibleLabelled = {} /\ VisibleGeneric = {})
        /\ (VisibleLabelled \cup VisibleGeneric) # {}
              => /\ fn.res.clicked \in (VisibleLabelled \cup VisibleGeneric)
                 /\ fn.res.sent = "none"
                 /\ VisibleLabelled # {}
                       => fn.page[fn.res.clicked].label = FirstVisibleLabel

\* the same on pages where every button is visible and can be clicked
C35_AllVisibleClickable ==
    (EnterDone /\ \A i \in DOMAIN fn.page : fn.page[i].visible /\ fn.page[i].clickOk)
        => /\ fn.res.sent # "none" => (VisibleLabelled = {} /\ VisibleGeneric = {})
           /\ (VisibleLabelled \cup VisibleGeneric) # {}
                 => /\ fn.res.clicked \in (VisibleLabelled \cup VisibleGeneric)
                    /\ fn.res.sent = "none"
                    /\ VisibleLabelled # {}
                          => fn.page[fn.res.clicked].label = FirstVisibleLabel

----------------------------------------------------------------------------
(* The step loop *)

\* the runner goes to the top of the for-loop body
EntersStep == pc' = "step_start" /\ pc # "step_start"

----------------------------------------------------------------------------
(* The manual-login wait *)

\* a step of the runner that calls wait_for_manual_login: at step start,
\* before an action, or for a login action
RunnerWaits ==
    /\ iter'.handshake # "none"
    /\ iter.handshake = "none" \/ <<iter'.step, iter'.k>> # <<iter.step, iter.k>>

\* a dispatch of open_page that lands on a login page and calls
\* wait_for_manual_login inside execute_action
HandlerWaits ==
    /\ dispatched' # dispatched
    /\ IterAction'.kind = "open_page"
    /\ iter'.out.sig = "ok" /\ iter'.out.shot = "none"

\* a manual-login wait of the run has started its poll: the login page was
\* captured before it
WaitEntered == "login_page" \in captured

\* C37: the manual-login wait is entered at most once per plan run. Whichever
\* path entered it first, no later point of the run calls
\* wait_for_manual_login again, and login_completed, once true, stays true.
C37_LoginWaitOnce ==
    /\ [][(RunnerWaits \/ HandlerWaits) => ~WaitEntered]_vars
    /\ [][login_completed => login_completed']_vars

\* the part on the flag alone
C37_FlagMonotone == [][login_completed => login_completed']_vars

----------------------------------------------------------------------------
(* The result of the run *)

\* C38: the overall success flag reflects the step outcomes. A result with
\* success = true is returned only when no action of any step raised, that
\* is, when every executed step ended with step_successful true.
C38_SuccessReflectsSteps ==
    (result.set /\ result.success) => (~anyFailed /\ step_successful)

----------------------------------------------------------------------------
(* A branch to a step the plan does not carry *)

\* the action loop was left on a branch signal whose target no step carries
MissingBranch ==
    pc = "step_end" /\ should_skip /\ skip_to_step # 0 /\ ~HasStep(skip_to_step)

\* the end-of-step screenshot is due (it can raise on its own)
EndShotDue == step_successful /\ is_login_related_step(CurStep.goal, loginPage)

\* C39: a branch to a step number that no step of the plan carries is
\* harmless. The remaining actions of the current step are not dispatched,
\* nothing is raised and no result is set, and the runner goes on with the
\* step that follows the current one in the document (or ends the loop after
\* the last step).
C39_MissingTargetHarmless ==
    /\ [](MissingBranch
            => \A k \in (actIdx + 1)..Len(CurStep.actions) :
                   <<current_step, k>> \notin dispatched)
    /\ [][ (MissingBranch /\ ~EndShotDue)
             => /\ exc' = exc /\ result' = result /\ outcome' = outcome
                /\ current_step' = current_step
                /\ dispatched' = dispatched
                /\ IF stepIdx < Len(plan)
                   THEN pc' = "step_start" /\ stepIdx' = stepIdx + 1
                   ELSE pc' = "finish" /\ stepIdx' = stepIdx
         ]_vars

\* step 1 of PlanMissing branched to step 8 before its second action, and
\* the run went on with step 2 and returned
C39_Witness ==
    /\ plan = PlanMissing
    /\ {<<1, 1>>, <<2, 1>>} \subseteq dispatched
    /\ <<1, 2>> \notin dispatched
    /\ result = Success

====
